---- MODULE Spec2Model ----
(***************************************************************************)
(* A model of the MCTS tree node of Sayuri (mcts/node.cc): one node, its   *)
(* edges, and the threads that expand it, select through it, back values   *)
(* up into it and prune it.                                                *)
(*                                                                         *)
(* Numbers.  Win rates and draw rates are kept in halves (EvalUnit = 2     *)
(* stands for 1.0), final scores in whole points.  A child's prior is the  *)
(* pair pnum/pden, the policy after the division by legal_accumulate.      *)
(***************************************************************************)
EXTENDS Integers, Sequences, FiniteSets, Bags, TLC

\* ------------------------------------------------------------------ bounds
NumThreads == 2
NumIntersections == 3
MaxUpdates == 2
MaxSetVisits == 1
MaxStatusCalls == 3
MaxBoardSize == 19
MaxPlayouts == 4
NumFingerprints == 3
MaxMiB == 2
EntriesPerMiB == 2
MaxInserts == 4
NumRootChildren == 5
MaxSerialUpdates == 4
MaxLcbVisits == 1002
MaxConsideredMoves == 9
MaxRootVisits == 40
WalkEpochs == 2
WalkSampleBudget == 16

Threads == 1..NumThreads
Indices == 0..(NumIntersections - 1)

\* --------------------------------------------------------------- constants
kInvalid == "kInvalid"
kBlack == "kBlack"
kWhite == "kWhite"
kPass == NumIntersections
EvalUnit == 2

VARIABLES
    state,                  \* the GameState handed to the node's operations
    param,                  \* param_ : the engine parameters
    nn_cache,               \* Network::nn_cache_ and the in-flight set
    pipe,                   \* the members of SelfPlayPipe
    expand_state,           \* expand_state_
    color,                  \* color_
    children,               \* children_ : sequence of edges
    black_wl,               \* black_wl_
    status,                 \* status_
    visits,                 \* visits_
    accumulated_black_wl,   \* accumulated_black_wl_
    accumulated_draw,       \* accumulated_draw_
    accumulated_black_fs,   \* accumulated_black_fs_
    squared_eval_diff,      \* squared_eval_diff_ (a fraction)
    avg_black_ownership,    \* avg_black_ownership_ (a fraction per intersection)
    score_bouns,            \* score_bouns_
    popped,                 \* the Node handed out by the last PopChild
    pc,                     \* where each thread is inside its current call
    loc,                    \* the locals of each thread's current call
    hist                    \* history: counters the properties are stated with

vars == <<state, param, nn_cache, pipe, expand_state, color, children, black_wl, status, visits,
          accumulated_black_wl, accumulated_draw, accumulated_black_fs,
          squared_eval_diff, avg_black_ownership,
          score_bouns, popped, pc, loc, hist>>

nodeVars == <<expand_state, color, children, black_wl, avg_black_ownership>>
statVars == <<visits, accumulated_black_wl, accumulated_draw, accumulated_black_fs,
             squared_eval_diff>>

\* ------------------------------------------------------------ small helpers
RECURSIVE SumOver(_, _)
SumOver(f, S) ==
    IF S = {} THEN 0
    ELSE LET x == CHOOSE y \in S : TRUE IN f[x] + SumOver(f, S \ {x})

\* Exact fractions [n, d] with d > 0, in lowest terms
RECURSIVE Gcd(_, _)
Gcd(a, b) == IF b = 0 THEN a ELSE Gcd(b, a % b)
Abs(x) == IF x < 0 THEN -x ELSE x
Frac(n, d) ==
    LET g == Gcd(Abs(n), Abs(d))
        sg == IF d < 0 THEN -1 ELSE 1
    IN  [n |-> sg * (n \div g), d |-> sg * (d \div g)]
FAdd(x, y) == Frac(x.n * y.d + y.n * x.d, x.d * y.d)
FSub(x, y) == Frac(x.n * y.d - y.n * x.d, x.d * y.d)
FMul(x, y) == Frac(x.n * y.n, x.d * y.d)
FDivInt(x, k) == Frac(x.n, x.d * k)
FInt(k) == [n |-> k, d |-> 1]
ZeroOwnership == [i \in Indices |-> FInt(0)]

\* Node::Node and the member initialisers of mcts/node.h: a fresh node is
\* unexpanded, has no colour, no children, no visits, and is Active.
NodeDefaults ==
    [expand_state |-> "Initial", color |-> kInvalid, children |-> <<>>,
     black_wl |-> 0, status |-> "Active", visits |-> 0,
     accumulated_black_wl |-> 0, accumulated_draw |-> 0,
     accumulated_black_fs |-> 0, squared_eval_diff |-> FInt(0),
     avg_black_ownership |-> ZeroOwnership, score_bouns |-> 0]

\* An edge: vertex, prior, and the lazily allocated Node (inflated) with the
\* fields of that Node the parent's operations read or write.  Where the
\* inflation itself is followed step by step, inflating is the flag a thread
\* holds while it allocates and node names the Node the edge owns (0: the
\* Node is not named).
Edge(vertex, pnum, pden) ==
    [vertex |-> vertex, pnum |-> pnum, pden |-> pden,
     inflated |-> FALSE, status |-> "Active", score_bouns |-> 0,
     visits |-> 0, lcb |-> 0, utility |-> 0, expanding |-> FALSE,
     inflating |-> FALSE, node |-> 0]

NoLocals ==
    [op |-> "none", nodelist |-> <<>>,
     evals |-> [black_wl |-> 0, draw |-> 0, black_final_score |-> 0, black_ownership |-> 0],
     old_acc_eval |-> 0, old_visits |-> 0,
     active |-> FALSE, valid |-> FALSE, before |-> "Active",
     idx |-> 0, moves_hash |-> {}, cands |-> <<>>, pass_listed |-> FALSE,
     fingerprint |-> 0, result |-> 0]

\* SelfPlayPipe::Initialize, selfplay/pipe.cc lines 25-30: the counters are
\* zero and the chunk is empty; games[g] is the game the engine holds for
\* worker g (0 when none), a game being named by its serial number, and the
\* chunk is the bag of the games whose data it holds
PipeDefaults(num_games) ==
    [max_games |-> num_games, accmulate_games |-> 0, played_games |-> 0,
     running_threads |-> 0, chunk_games |-> 0, chunk |-> EmptyBag,
     games |-> [g \in Threads |-> 0]]

\* ------------------------------------------------------------- expansion
\* Node::HaveChildren
HaveChildren == color /= kInvalid

\* ExpandChildren, lines 119-165: walk the intersections in index order and
\* keep the legal ones that symmetry pruning does not drop.  st.legal is the
\* set of indices that pass IsLegalMove and are outside the strict safe area,
\* st.symm_dup the legal indices whose symmetric image was already listed.
RECURSIVE Candidates(_, _)
Candidates(st, idx) ==
    IF idx >= NumIntersections THEN <<>>
    ELSE IF idx \in st.legal /\ idx \notin st.symm_dup
         THEN <<[policy |-> st.probabilities[idx], vertex |-> idx]>>
                  \o Candidates(st, idx + 1)
         ELSE Candidates(st, idx + 1)

\* ExpandChildren, lines 167-170, on a board of num_intersections points
AllowPassOn(size, num_intersections) == ~(size > (3 * num_intersections) \div 4)

\* A pass rule that also fires at the threshold
AllowPass_AtThreshold(size) == ~(size >= (3 * NumIntersections) \div 4)

\* ExpandChildren, lines 167-170: allow_pass, false with too many legal moves
AllowPass(size) == AllowPassOn(size, NumIntersections)

\* A sum that leaves the pass out
LegalAccumulate_PassUncounted(st, with_pass) == SumOver(st.probabilities, st.legal)

\* ExpandChildren, lines 141-162 and 176: legal_accumulate, the policy of
\* every legal move, the symmetry-pruned ones included, and of the pass when
\* it is listed
LegalAccumulate(st, with_pass) ==
    SumOver(st.probabilities, st.legal) + (IF with_pass THEN st.pass_probability ELSE 0)

\* ExpandChildren, lines 100-189: the candidate list, the pass rule and the
\* division by legal_accumulate.  The policies are integers, so the test
\* legal_accumulate < 1e-8 is legal_accumulate = 0.
GatherNodeList(st) ==
    LET cands == Candidates(st, 0)
        allow_pass == AllowPass(Len(cands))
        with_pass == allow_pass \/ cands = <<>>
        nodelist == IF with_pass
                    THEN Append(cands, [policy |-> st.pass_probability, vertex |-> kPass])
                    ELSE cands
        legal_accumulate == LegalAccumulate(st, with_pass)
    IN  [i \in 1..Len(nodelist) |->
            IF legal_accumulate = 0
            THEN [pnum |-> 1, pden |-> Len(nodelist), vertex |-> nodelist[i].vertex]
            ELSE [pnum |-> nodelist[i].policy, pden |-> legal_accumulate,
                  vertex |-> nodelist[i].vertex]]

\* The comparison turned round
PairLess_Greater(a, b) ==
    \/ a.pnum * b.pden > b.pnum * a.pden
    \/ a.pnum * b.pden = b.pnum * a.pden /\ a.vertex > b.vertex

\* operator< of std::pair<float,int> on two entries of one node list (they
\* share pden)
PairLess(a, b) ==
    \/ a.pnum * b.pden < b.pnum * a.pden
    \/ a.pnum * b.pden = b.pnum * a.pden /\ a.vertex < b.vertex

\* LinkNodeList, line 202: std::stable_sort over the reversed range, i.e. the
\* list in descending order of (policy, vertex): the entry at place k is the
\* one with k - 1 entries above it (no two entries share a vertex).
SortDescending(s) ==
    [k \in 1..Len(s) |->
        s[CHOOSE i \in 1..Len(s) :
              Cardinality({j \in 1..Len(s) : PairLess(s[i], s[j])}) = k - 1]]

\* LinkNodeList as a whole (used where the caller is alone on the node)
LinkNodeList(nodelist) ==
    LET sorted == SortDescending(nodelist)
    IN  [i \in 1..Len(sorted) |-> Edge(sorted[i].vertex, sorted[i].pnum, sorted[i].pden)]

\* ApplyNetOutput, lines 220-235: the side-to-move win rate in Black's view
NetBlackWl(st) == IF st.to_move = kWhite THEN EvalUnit - st.stm_winrate ELSE st.stm_winrate

\* A call returns: its locals are gone
Return(t) ==
    /\ pc' = [pc EXCEPT ![t] = "idle"]
    /\ loc' = [loc EXCEPT ![t] = NoLocals]

\* ------------------------------------- the candidate loop on a real board
\* Here the state is a board: board_size, the stones on it as a set of
\* <<index, colour>>, the move number and the side to move.  A Zobrist hash
\* is the XOR of one random word per stone, so two hashes are equal when the
\* sets of stones are and the XOR of two hashes is the symmetric difference.
Symmetries == 0..7
kIdentitySymmetry == 0

\* Symmetry::TransformVertex: the eight symmetries of the square, as a flip
\* of x, a flip of y and a transposition
TransformVertex(board_size, symm, vtx) ==
    LET x == vtx % board_size
        y == vtx \div board_size
        tx == IF (symm \div 4) % 2 = 1 THEN y ELSE x
        ty == IF (symm \div 4) % 2 = 1 THEN x ELSE y
        fx == IF symm % 2 = 1 THEN board_size - 1 - tx ELSE tx
        fy == IF (symm \div 2) % 2 = 1 THEN board_size - 1 - ty ELSE ty
    IN  fy * board_size + fx

HashXor(a, b) == (a \ b) \cup (b \ a)

\* GameState::GetHash
GetHash(st) == st.stones

\* GameState::GetMoveHash
GetMoveHash(vtx, c) == {<<vtx, c>>}

\* GameState::ComputeSymmetryHash: the hash of the board under the symmetry
ComputeSymmetryHash(st, symm) ==
    {<<TransformVertex(st.board_size, symm, s[1]), s[2]>> : s \in st.stones}

\* ExpandChildren, lines 108-109
ApplySymmPruning(st, prm) == prm.symm_pruning /\ st.board_size >= st.move_number

\* A loop over the symmetries that stops after the identity
HashFound_IdentityOnly(st, moves_hash, vtx) ==
    \E symm \in {y \in Symmetries : y > kIdentitySymmetry /\ y < kIdentitySymmetry + 1} :
        HashXor(ComputeSymmetryHash(st, symm),
                GetMoveHash(TransformVertex(st.board_size, symm, vtx), st.to_move))
            \in moves_hash

\* ExpandChildren, lines 138-146: is the position after vtx, seen under one
\* of the seven other symmetries, the position after a move already listed
HashFound(st, moves_hash, vtx) ==
    \E symm \in {y \in Symmetries : y > kIdentitySymmetry} :
        HashXor(ComputeSymmetryHash(st, symm),
                GetMoveHash(TransformVertex(st.board_size, symm, vtx), st.to_move))
            \in moves_hash

\* ExpandChildren, lines 100-117: the locals of the candidate loop
ExpandChildren_BeginCandidates(t) ==
    /\ pc[t] = "idle"
    /\ pc' = [pc EXCEPT ![t] = "ec_cand"]
    /\ loc' = [loc EXCEPT ![t] = [NoLocals EXCEPT !.op = "ExpandChildren"]]
    /\ UNCHANGED <<state, pipe, param, nn_cache, nodeVars, status, statVars, score_bouns, popped, hist>>

\* ExpandChildren, lines 119-165: one pass of the loop over the intersections
ExpandChildren_Candidate(t) ==
    /\ pc[t] = "ec_cand"
    /\ loc[t].idx < state.board_size * state.board_size
    /\ LET vtx == loc[t].idx
           legal == \A s \in state.stones : s[1] /= vtx
           found == ApplySymmPruning(state, param) /\ HashFound(state, loc[t].moves_hash, vtx)
       IN  loc' = [loc EXCEPT
                ![t].idx = @ + 1,
                ![t].moves_hash =
                    IF legal /\ ApplySymmPruning(state, param) /\ ~found
                    THEN @ \cup {HashXor(GetHash(state), GetMoveHash(vtx, state.to_move))}
                    ELSE @,
                ![t].cands = IF legal /\ ~found THEN Append(@, vtx) ELSE @]
    /\ UNCHANGED <<state, pipe, param, nn_cache, nodeVars, status, statVars, score_bouns, popped, hist, pc>>

\* ExpandChildren, lines 167-177: the pass rule, at the end of the loop
ExpandChildren_PassRule(t) ==
    /\ pc[t] = "ec_cand"
    /\ loc[t].idx = state.board_size * state.board_size
    /\ pc' = [pc EXCEPT ![t] = "ec_listed"]
    /\ loc' = [loc EXCEPT ![t].pass_listed =
                  AllowPassOn(Len(loc[t].cands), state.board_size * state.board_size)
                      \/ loc[t].cands = <<>>]
    /\ UNCHANGED <<state, pipe, param, nn_cache, nodeVars, status, statVars, score_bouns, popped, hist>>

\* ExpandChildren, lines 74-76: refuse when the node already has a colour.
\* A new call starts here; it has written nothing yet.
ExpandChildren_HaveChildren(t) ==
    /\ pc[t] = "idle"
    /\ UNCHANGED hist
    /\ IF HaveChildren
       THEN Return(t)
       ELSE /\ pc' = [pc EXCEPT ![t] = "ec_acquire"]
            /\ loc' = [loc EXCEPT ![t] = [NoLocals EXCEPT !.op = "ExpandChildren"]]
    /\ UNCHANGED <<state, pipe, param, nn_cache, nodeVars, status, statVars, score_bouns, popped>>

\* ExpandChildren, lines 73-76, on a board that counts its passes.  The
\* assert on GetPasses() ends the program in a build with assertions and is
\* no statement at all in a build without (ndebug); HaveChildren() returns
\* false from the call.
ExpandChildren_Enter(t, ndebug) ==
    /\ pc[t] = "idle"
    /\ IF ~ndebug /\ ~(state.passes < 2)
       THEN /\ pc' = [pc EXCEPT ![t] = "aborted"]
            /\ UNCHANGED <<loc, hist>>
       ELSE IF HaveChildren
            THEN /\ Return(t)
                 /\ hist' = [hist EXCEPT !.expand_false = IF @ < 2 THEN @ + 1 ELSE @]
            ELSE /\ pc' = [pc EXCEPT ![t] = "ec_acquire"]
                 /\ loc' = [loc EXCEPT ![t] = [NoLocals EXCEPT !.op = "ExpandChildren"]]
                 /\ UNCHANGED hist
    /\ UNCHANGED <<state, pipe, param, nn_cache, nodeVars, status, statVars, score_bouns, popped>>

\* An acquire that always refuses
AcquireExpanding_Never == FALSE

\* A test-and-set that only refuses an expanded node
AcquireExpanding_Weak == expand_state /= "Expanded"

\* Node::AcquireExpanding: compare_exchange_strong(Initial -> Expanding)
AcquireExpanding == expand_state = "Initial"

\* ExpandChildren, lines 79-81
ExpandChildren_Acquire(t) ==
    /\ pc[t] = "ec_acquire"
    /\ IF AcquireExpanding
       THEN /\ expand_state' = "Expanding"
            /\ pc' = [pc EXCEPT ![t] = "ec_color"]
            /\ UNCHANGED <<loc, hist>>
       ELSE /\ Return(t)
            /\ hist' = [hist EXCEPT !.cas_lost = TRUE]
            /\ UNCHANGED expand_state
    /\ UNCHANGED <<state, pipe, param, nn_cache, color, children, black_wl, avg_black_ownership, status, statVars,
                   score_bouns, popped>>

\* ExpandChildren, line 87: color_ = state.GetToMove()
ExpandChildren_SetColor(t) ==
    /\ pc[t] = "ec_color"
    /\ color' = state.to_move
    /\ pc' = [pc EXCEPT ![t] = "ec_eval"]
    /\ UNCHANGED hist
    /\ UNCHANGED <<state, pipe, param, nn_cache, expand_state, children, black_wl, avg_black_ownership, status, statVars,
                   score_bouns, popped, loc>>

\* ExpandChildren, lines 89-94: the evaluator call.  Nothing in ExpandChildren
\* catches what network.GetOutput throws: on a failure the call is left by
\* the exception, with the node as it is at this line.
ExpandChildren_GetOutput(t) ==
    /\ pc[t] = "ec_eval"
    /\ \E ok \in BOOLEAN :
          IF ok
          THEN /\ pc' = [pc EXCEPT ![t] = "ec_apply"]
               /\ UNCHANGED <<loc, hist>>
          ELSE /\ Return(t)
               /\ hist' = [hist EXCEPT !.evaluator_failed = TRUE]
    /\ UNCHANGED <<state, pipe, param, nn_cache, nodeVars, status, statVars, score_bouns, popped>>

\* ExpandChildren, lines 97-189 and LinkNodeList line 202: ApplyNetOutput
\* stores black_wl_; the node list is gathered, normalised and sorted in
\* locals of the call.
ExpandChildren_ApplyNetOutput(t) ==
    /\ pc[t] = "ec_apply"
    /\ black_wl' = NetBlackWl(state)
    /\ avg_black_ownership' = ZeroOwnership
    /\ loc' = [loc EXCEPT ![t].nodelist = SortDescending(GatherNodeList(state))]
    /\ pc' = [pc EXCEPT ![t] = "ec_link"]
    /\ hist' = [hist EXCEPT !.nodelist = SortDescending(GatherNodeList(state))]
    /\ UNCHANGED <<state, pipe, param, nn_cache, expand_state, color, children, status, statVars,
                   score_bouns, popped>>

\* LinkNodeList with the node published as Expanded while the list is filled
ExpandChildren_Link_Publishing(t) ==
    /\ pc[t] = "ec_link"
    /\ IF loc[t].nodelist = <<>>
       THEN /\ pc' = [pc EXCEPT ![t] = "ec_done"]
            /\ UNCHANGED <<children, loc, expand_state>>
       ELSE LET node == Head(loc[t].nodelist)
            IN  /\ children' = Append(children, Edge(node.vertex, node.pnum, node.pden))
                /\ loc' = [loc EXCEPT ![t].nodelist = Tail(@)]
                /\ expand_state' = "Expanded"
                /\ UNCHANGED pc
    /\ UNCHANGED <<state, pipe, param, nn_cache, color, black_wl, avg_black_ownership, status, statVars,
                   score_bouns, popped, hist>>

\* LinkNodeList, lines 204-208: children_.emplace_back, one entry per step
ExpandChildren_Link(t) ==
    /\ pc[t] = "ec_link"
    /\ IF loc[t].nodelist = <<>>
       THEN /\ pc' = [pc EXCEPT ![t] = "ec_done"]
            /\ UNCHANGED <<children, loc>>
       ELSE LET node == Head(loc[t].nodelist)
            IN  /\ children' = Append(children, Edge(node.vertex, node.pnum, node.pden))
                /\ loc' = [loc EXCEPT ![t].nodelist = Tail(@)]
                /\ UNCHANGED pc
    /\ UNCHANGED <<state, pipe, param, nn_cache, expand_state, color, black_wl, avg_black_ownership, status, statVars,
                   score_bouns, popped, hist>>

\* Node::ExpandDone: exchange(Expanded)
ExpandDone == expand_state' = "Expanded"

\* ExpandChildren, lines 195-197
ExpandChildren_Done(t) ==
    /\ pc[t] = "ec_done"
    /\ ExpandDone
    /\ Return(t)
    /\ hist' = [hist EXCEPT !.expand_true = @ + 1]
    /\ UNCHANGED <<state, pipe, param, nn_cache, color, children, black_wl, avg_black_ownership, status, statVars,
                   score_bouns, popped>>

ExpandChildren(t) ==
    \/ ExpandChildren_HaveChildren(t)
    \/ ExpandChildren_Acquire(t)
    \/ ExpandChildren_SetColor(t)
    \/ ExpandChildren_GetOutput(t)
    \/ ExpandChildren_ApplyNetOutput(t)
    \/ ExpandChildren_Link(t)
    \/ ExpandChildren_Done(t)

\* Node::SetTerminal
SetTerminal_Acquire(t) ==
    /\ pc[t] = "idle"
    /\ IF AcquireExpanding
       THEN /\ expand_state' = "Expanding"
            /\ pc' = [pc EXCEPT ![t] = "st_color"]
            /\ loc' = [loc EXCEPT ![t] = [NoLocals EXCEPT !.op = "SetTerminal"]]
       ELSE /\ Return(t)
            /\ UNCHANGED expand_state
    /\ UNCHANGED hist
    /\ UNCHANGED <<state, pipe, param, nn_cache, color, children, black_wl, avg_black_ownership, status, statVars,
                   score_bouns, popped>>

SetTerminal_SetColor(t) ==
    /\ pc[t] = "st_color"
    /\ color' = kInvalid
    /\ pc' = [pc EXCEPT ![t] = "st_done"]
    /\ UNCHANGED <<state, pipe, param, nn_cache, expand_state, children, black_wl, avg_black_ownership, status, statVars,
                   score_bouns, popped, loc, hist>>

SetTerminal_Done(t) ==
    /\ pc[t] = "st_done"
    /\ ExpandDone
    /\ Return(t)
    /\ hist' = [hist EXCEPT !.terminal_true = @ + 1]
    /\ UNCHANGED <<state, pipe, param, nn_cache, color, children, black_wl, avg_black_ownership, status, statVars,
                   score_bouns, popped>>

SetTerminal(t) ==
    SetTerminal_Acquire(t) \/ SetTerminal_SetColor(t) \/ SetTerminal_Done(t)
\* ------------------------------------------------------ readers, selectors
Selectors == {"ProbSelectChild", "PuctSelectChild", "UctSelectChild", "GumbelSelectChild"}
Readers == Selectors \cup {"GetLcbUtilityList", "GetBestMove"}

\* A spin that ends as soon as the node is no longer Initial
WaitExpandedBreaks_Early == expand_state /= "Initial"

\* Node::WaitExpanded, lines 1148-1151: the load that ends the spin
WaitExpandedBreaks == expand_state = "Expanded"

\* The first statement of every selector and of GetLcbUtilityList and
\* GetBestMove is WaitExpanded().  A load that does not see Expanded yields
\* and loads again, which changes nothing; the step of the call is the load
\* that ends the spin, after which the caller (op) goes on to the edges.
WaitExpanded(t, op) ==
    /\ pc[t] = "idle"
    /\ WaitExpandedBreaks
    /\ pc' = [pc EXCEPT ![t] = "rd_scan"]
    /\ loc' = [loc EXCEPT ![t] = [NoLocals EXCEPT !.op = op]]
    /\ UNCHANGED <<state, pipe, param, nn_cache, nodeVars, status, statVars, score_bouns, popped, hist>>

\* A caller enters WaitExpanded (the first statement of a selector or of a
\* best-move query)
WaitExpanded_Enter(t) ==
    /\ pc[t] = "idle"
    /\ pc' = [pc EXCEPT ![t] = "we_spin"]
    /\ loc' = [loc EXCEPT ![t] = [NoLocals EXCEPT !.op = "WaitExpanded"]]
    /\ hist' = [hist EXCEPT !.waited = @ \/ ~WaitExpandedBreaks]
    /\ UNCHANGED <<state, pipe, param, nn_cache, nodeVars, status, statVars, score_bouns, popped>>

\* Node::WaitExpanded, lines 1147-1155, one turn of the loop: the load; on
\* Expanded the loop is left and the call returns, otherwise the thread
\* yields and the loop turns again
WaitExpanded_Load(t) ==
    /\ pc[t] = "we_spin"
    /\ IF WaitExpandedBreaks
       THEN Return(t)
       ELSE UNCHANGED <<pc, loc>>
    /\ UNCHANGED <<state, pipe, param, nn_cache, nodeVars, status, statVars, score_bouns, popped,
                   hist>>

\* Node::Inflate / Edge::Inflate: allocate the edge's Node if it has none
Inflate(ch, i) == [ch EXCEPT ![i].inflated = TRUE]

\* "The node is pruned or invalid. Skip it." (lines 355, 429, 527)
Skipped(edge) == edge.inflated /\ edge.status /= "Active"

\* The loop of a selector over children_: best_node is one of the edges the
\* loop does not skip; Inflate(*best_node); return best_node->Get().  With
\* no such edge best_node stays nullptr and Inflate dereferences it.
SelectAmong(t, candidates) ==
    /\ pc[t] = "rd_scan"
    /\ IF candidates = {} \/ ~HaveChildren
       THEN /\ pc' = [pc EXCEPT ![t] = "crashed"]
            /\ UNCHANGED <<children, loc>>
       ELSE \E i \in candidates :
               /\ children' = Inflate(children, i)
               /\ Return(t)
    /\ UNCHANGED <<state, pipe, param, nn_cache, expand_state, color, black_wl, avg_black_ownership, status, statVars,
                   score_bouns, popped, hist>>

NotSkipped == {i \in DOMAIN children : ~Skipped(children[i])}

\* Node::ProbSelectChild
ProbSelectChild(t) ==
    \/ WaitExpanded(t, "ProbSelectChild")
    \/ loc[t].op = "ProbSelectChild" /\ SelectAmong(t, NotSkipped)

\* Node::PuctSelectChild
PuctSelectChild(t) ==
    \/ WaitExpanded(t, "PuctSelectChild")
    \/ loc[t].op = "PuctSelectChild" /\ SelectAmong(t, NotSkipped)

\* Node::UctSelectChild
UctSelectChild(t) ==
    \/ WaitExpanded(t, "UctSelectChild")
    \/ loc[t].op = "UctSelectChild" /\ SelectAmong(t, NotSkipped)

\* Node::GumbelSelectChild: the final loop (lines 1541-1547) runs over every
\* edge; ProcessGumbelLogits reads node->GetVisits() of every edge it does
\* not skip, so every such edge must be inflated.
GumbelSelectChild(t) ==
    \/ WaitExpanded(t, "GumbelSelectChild")
    \/ /\ loc[t].op = "GumbelSelectChild"
       /\ SelectAmong(t, IF \A i \in DOMAIN children : children[i].inflated
                         THEN DOMAIN children ELSE {})

\* Node::GetLcbUtilityList: reads the edges, changes nothing
GetLcbUtilityList(t) ==
    \/ WaitExpanded(t, "GetLcbUtilityList")
    \/ /\ loc[t].op = "GetLcbUtilityList"
       /\ pc[t] = "rd_scan"
       /\ Return(t)
       /\ UNCHANGED <<state, pipe, param, nn_cache, nodeVars, status, statVars, score_bouns,
                      popped, hist>>

\* Node::GetBestMove: the best entry of the LCB list, or, when the list is
\* empty, ProbSelectChild()->GetVertex()
GetBestMove(t) ==
    \/ WaitExpanded(t, "GetBestMove")
    \/ /\ loc[t].op = "GetBestMove"
       /\ pc[t] = "rd_scan"
       /\ \/ /\ \E i \in DOMAIN children :
                   /\ children[i].inflated /\ children[i].status = "Active"
                   /\ Return(t)
             /\ UNCHANGED <<state, pipe, param, nn_cache, nodeVars, status, statVars, score_bouns,
                            popped, hist>>
          \/ SelectAmong(t, NotSkipped)
\* ---------------------------------------------------------- root operations
\* The root operations run on the thread that owns the search, between
\* searches: no other call is inside the node.
Quiescent == \A t \in Threads : pc[t] = "idle"

\* An IsValid that never refuses
IsValid_Always(s) == TRUE

\* Node::IsValid on a status value
IsValid(s) == s /= "Invalid"

\* Node::Invalidate as a function of the status
Invalidated(s) == IF IsValid(s) THEN "Invalid" ELSE s

\* Node::InflateAllChildren
InflateAllChildren(ch) == [i \in DOMAIN ch |-> [ch[i] EXCEPT !.inflated = TRUE]]

\* GameState::GetKoHash: the board's ko hash, as the int the function
\* returns; the last entry of the history is the hash of the board as it is
GetKoHash(st) == st.ko_hash_history[Len(st.ko_hash_history)]

\* GameState::PlayMove on the fork: a legal move is played and the new ko
\* hash appended (st.move_ko_hash[vtx] is the ko hash of the board after
\* vtx; a pass leaves the board as it is); an illegal move changes nothing
PlayMove(st, vtx) ==
    IF vtx = kPass
    THEN [st EXCEPT !.ko_hash_history = Append(@, GetKoHash(st))]
    ELSE IF vtx \in st.legal
         THEN [st EXCEPT !.ko_hash_history = Append(@, st.move_ko_hash[vtx])]
         ELSE st

\* A search that does not step over the last entry
IsSuperko_FromLast(st) ==
    \E j \in 1..Len(st.ko_hash_history) : st.ko_hash_history[j] = GetKoHash(st)

\* GameState::IsSuperko: std::find from the entry before the last one back
\* to the first
IsSuperko(st) ==
    \E j \in 1..(Len(st.ko_hash_history) - 1) : st.ko_hash_history[j] = GetKoHash(st)

\* Node::KillRootSuperkos on inflated edges: every non-pass child whose move
\* makes fork_state.IsSuperko() true is invalidated; the invalid are erased
KillRootSuperkos(ch, st) ==
    LET marked == [i \in DOMAIN ch |->
                      IF ch[i].vertex /= kPass /\ IsSuperko(PlayMove(st, ch[i].vertex))
                      THEN [ch[i] EXCEPT !.status = Invalidated(@)]
                      ELSE ch[i]]
    IN  SelectSeq(marked, LAMBDA e : IsValid(e.status))

VerticesOf(ch) == {ch[i].vertex : i \in DOMAIN ch}

KillRootSuperkosCall ==
    /\ Quiescent
    /\ expand_state = "Expanded"
    /\ children /= <<>>
    /\ \A i \in DOMAIN children : children[i].inflated
    /\ children' = KillRootSuperkos(children, state)
    /\ hist' = [hist EXCEPT !.removed = @ \cup (VerticesOf(children) \ VerticesOf(children'))]
    /\ UNCHANGED <<state, pipe, param, nn_cache, expand_state, color, black_wl, avg_black_ownership, status, statVars,
                   score_bouns, popped, pc, loc>>

\* Node::GetChild: the first edge with the vertex (0 when there is none)
ChildIndex(ch, vertex) ==
    IF \E i \in DOMAIN ch : ch[i].vertex = vertex
    THEN CHOOSE i \in DOMAIN ch :
            ch[i].vertex = vertex /\ \A j \in 1..(i - 1) : ch[j].vertex /= vertex
    ELSE 0

\* An erase that drops the found edge and every edge after it
RemoveAt_Tail(ch, i) == SubSeq(ch, 1, i - 1)

\* children_.erase of the one edge that owns the node (PopChild, lines 915-919)
RemoveAt(ch, i) == SubSeq(ch, 1, i - 1) \o SubSeq(ch, i + 1, Len(ch))

\* Node::PopChild
PopChild(vertex) ==
    /\ Quiescent
    /\ expand_state = "Expanded"
    /\ popped.null
    /\ LET i == ChildIndex(children, vertex)
       IN  IF i = 0
           THEN /\ popped' = [vertex |-> -1, score_bouns |-> 0, null |-> TRUE]
                /\ UNCHANGED <<children, hist>>
           ELSE /\ popped' = [vertex |-> vertex, score_bouns |-> children[i].score_bouns,
                              null |-> FALSE]
                /\ children' = RemoveAt(children, i)
                /\ hist' = [hist EXCEPT !.removed = @ \cup {vertex}]
    /\ UNCHANGED <<state, pipe, param, nn_cache, expand_state, color, black_wl, avg_black_ownership, status, statVars,
                   score_bouns, pc, loc>>

\* A loop that gives the pass child its bonus whatever first_pass_bonus is
ResetBonus_PassAlways(ch, first_pass_bonus) ==
    [i \in DOMAIN ch |->
        [ch[i] EXCEPT !.score_bouns = IF ch[i].vertex = kPass THEN 1 ELSE 0]]

\* PrepareRootNode, lines 51-62: the score bonuses (in half points)
ResetBonus(ch, first_pass_bonus) ==
    [i \in DOMAIN ch |->
        [ch[i] EXCEPT !.score_bouns =
            IF first_pass_bonus /\ ch[i].vertex = kPass THEN 1 ELSE 0]]

\* Node::PrepareRootNode, by the thread that owns the search.  Its call of
\* ExpandChildren runs alone, so the steps of the expansion are one step
\* here; ok is whether the evaluator call returns.
PrepareRootNode ==
    /\ Quiescent
    /\ LET expands == ~HaveChildren /\ AcquireExpanding
       IN  \E ok \in BOOLEAN :
              IF expands /\ ~ok
              THEN /\ expand_state' = "Expanding"
                   /\ color' = state.to_move
                   /\ hist' = [hist EXCEPT !.evaluator_failed = TRUE]
                   /\ UNCHANGED <<children, black_wl, avg_black_ownership, score_bouns>>
              ELSE /\ expands \/ (ok /\ HaveChildren)
                   /\ LET linked == IF expands
                                    THEN LinkNodeList(GatherNodeList(state))
                                    ELSE children
                          killed == KillRootSuperkos(InflateAllChildren(linked), state)
                      IN  /\ children' = ResetBonus(killed, param.first_pass_bonus)
                          /\ hist' = [hist EXCEPT
                                 !.removed = @ \cup (VerticesOf(linked) \ VerticesOf(killed)),
                                 !.nodelist = IF expands
                                              THEN SortDescending(GatherNodeList(state))
                                              ELSE @,
                                 !.expand_true = IF expands THEN @ + 1 ELSE @,
                                 !.root_prepared = TRUE]
                   /\ IF expands
                      THEN /\ color' = state.to_move
                           /\ black_wl' = NetBlackWl(state)
                           /\ avg_black_ownership' = ZeroOwnership
                           /\ ExpandDone
                      ELSE UNCHANGED <<color, black_wl, avg_black_ownership, expand_state>>
                   /\ score_bouns' = 0
    /\ UNCHANGED <<state, pipe, param, nn_cache, status, statVars, popped, pc, loc>>

\* An erase that removes nothing
RemoveAt_None(ch, i) == ch

\* Node::PopChild called between searches, lines 912-922: GetChild finds and
\* inflates the edge of the vertex, the edge whose Node that is is erased and
\* the Node returned as it is; without such an edge nullptr is returned.
\* (RemoveOwner is the remove_if/erase of lines 915-919.)
RemoveOwner(ch, i) == RemoveAt(ch, i)

PopChildCall(vertex) ==
    /\ Quiescent
    /\ expand_state = "Expanded"
    /\ popped.null
    /\ LET i == ChildIndex(children, vertex)
       IN  /\ popped' = IF i = 0
                        THEN [vertex |-> -1, score_bouns |-> 0, null |-> TRUE]
                        ELSE [vertex |-> vertex, score_bouns |-> children[i].score_bouns,
                              null |-> FALSE]
           /\ children' = IF i = 0 THEN children ELSE RemoveOwner(children, i)
           /\ hist' = [hist EXCEPT
                  !.removed = IF i = 0 THEN @ ELSE @ \cup {vertex},
                  !.last_pop = [calls |-> IF @.calls < 2 THEN @.calls + 1 ELSE @.calls,
                                vertex |-> vertex]]
    /\ UNCHANGED <<state, pipe, param, nn_cache, expand_state, color, black_wl, avg_black_ownership,
                   status, statVars, score_bouns, pc, loc>>

\* PrepareRootNode called on the Node PopChild handed out, now the root of
\* the next search: line 52, SetScoreBouns(0.f) on the root itself
PrepareRootNode_NewRoot ==
    /\ Quiescent
    /\ ~popped.null
    /\ ~hist.new_root_prepared
    /\ popped' = [popped EXCEPT !.score_bouns = 0]
    /\ hist' = [hist EXCEPT !.new_root_prepared = TRUE]
    /\ UNCHANGED <<state, pipe, param, nn_cache, nodeVars, status, statVars, score_bouns, pc, loc>>

\* ------------------------------------------------------- edge inflation
\* An acquire that never refuses
AcquireInflating_Always(e) == TRUE

\* Edge::AcquireInflating: compare-and-swap of the slot from uninflated to
\* inflating
AcquireInflating(e) == ~e.inflating /\ ~e.inflated

\* The callers of Node::Inflate: a selector with its best_node (lines 371,
\* 475, 596, 1549), GetChild with the edge of the vertex (lines 903-906).
\* best_node is one of the edges the loop does not skip; with none the
\* selector dereferences nullptr.
SelectInflating(t, candidates) ==
    /\ pc[t] = "rd_scan"
    /\ IF candidates = {} \/ ~HaveChildren
       THEN /\ pc' = [pc EXCEPT ![t] = "crashed"]
            /\ UNCHANGED loc
       ELSE \E i \in candidates :
               /\ pc' = [pc EXCEPT ![t] = "inf_load"]
               /\ loc' = [loc EXCEPT ![t].idx = i]
    /\ UNCHANGED <<state, pipe, param, nn_cache, nodeVars, status, statVars, score_bouns,
                   popped, hist>>

\* Node::GetChild, lines 902-910, on an expanded node: the first edge with
\* the vertex, or nullptr
GetChild_Find(t, vertex) ==
    /\ pc[t] = "idle"
    /\ WaitExpandedBreaks
    /\ LET i == ChildIndex(children, vertex)
       IN  IF i = 0
           THEN /\ Return(t)
                /\ hist' = [hist EXCEPT !.null_returned = TRUE]
           ELSE /\ pc' = [pc EXCEPT ![t] = "inf_load"]
                /\ loc' = [loc EXCEPT ![t] = [NoLocals EXCEPT !.op = "GetChild", !.idx = i]]
                /\ UNCHANGED hist
    /\ UNCHANGED <<state, pipe, param, nn_cache, nodeVars, status, statVars, score_bouns, popped>>

\* Edge::Inflate, the load of the slot: a slot that holds a Node ends the
\* call with false
Inflate_Load(t) ==
    /\ pc[t] = "inf_load"
    /\ pc' = [pc EXCEPT ![t] = IF children[loc[t].idx].inflated THEN "inf_get" ELSE "inf_cas"]
    /\ UNCHANGED <<state, pipe, param, nn_cache, nodeVars, status, statVars, score_bouns,
                   popped, loc, hist>>

\* Edge::Inflate, the acquire: the thread that takes the flag goes on to
\* allocate, any other loads the slot again
Inflate_Acquire(t) ==
    /\ pc[t] = "inf_cas"
    /\ IF AcquireInflating(children[loc[t].idx])
       THEN /\ children' = [children EXCEPT ![loc[t].idx].inflating = TRUE]
            /\ pc' = [pc EXCEPT ![t] = "inf_store"]
       ELSE /\ pc' = [pc EXCEPT ![t] = "inf_load"]
            /\ UNCHANGED children
    /\ UNCHANGED <<state, pipe, param, nn_cache, expand_state, color, black_wl, avg_black_ownership,
                   status, statVars, score_bouns, popped, loc, hist>>

\* Edge::Inflate, new Node(vertex, policy) and the exchange that puts it in
\* the slot; the call returns true.  The Node is named after the thread that
\* allocated it.
Inflate_Store(t) ==
    /\ pc[t] = "inf_store"
    /\ children' = [children EXCEPT ![loc[t].idx].inflated = TRUE,
                                    ![loc[t].idx].inflating = FALSE,
                                    ![loc[t].idx].node = t]
    /\ hist' = [hist EXCEPT !.allocated[children[loc[t].idx].vertex] = @ + 1]
    /\ pc' = [pc EXCEPT ![t] = "inf_param"]
    /\ UNCHANGED <<state, pipe, param, nn_cache, expand_state, color, black_wl, avg_black_ownership,
                   status, statVars, score_bouns, popped, loc>>

\* Node::Inflate, line 1077: child.Get()->SetParameters(param_) by the
\* thread whose Edge::Inflate returned true
Inflate_SetParameters(t) ==
    /\ pc[t] = "inf_param"
    /\ pc' = [pc EXCEPT ![t] = "inf_get"]
    /\ UNCHANGED <<state, pipe, param, nn_cache, nodeVars, status, statVars, score_bouns,
                   popped, loc, hist>>

\* Edge::Get after Inflate (best_node->Get(), child.Get()): the Node in the
\* slot is what the caller returns
Inflate_Get(t) ==
    /\ pc[t] = "inf_get"
    /\ Return(t)
    /\ UNCHANGED <<state, pipe, param, nn_cache, nodeVars, status, statVars, score_bouns, popped,
                   hist>>

\* Node::Inflate from its call to its caller's Get
InflateSteps(t) ==
    \/ Inflate_Load(t)
    \/ Inflate_Acquire(t)
    \/ Inflate_Store(t)
    \/ Inflate_SetParameters(t)
    \/ Inflate_Get(t)

\* ------------------------------------------------------------- best move
\* kNullVertex of game/types.h: the vertex that is no vertex
kNullVertex == 0 - 1

\* The constant GetLcb subtracts from the prior of a node with at most one
\* visit (line 681: GetPolicy() - 1e6f)
kLcbFirstVisitPenalty == 1000000

FLess(x, y) == x.n * y.d < y.n * x.d
FPolicy(e) == Frac(e.pnum, e.pden)

\* Node::GetLcb of a child: with at most one visit the prior minus the
\* penalty, otherwise mean - z * stddev, which is the child's field lcb
\* (in units of 1/EvalUnit)
GetLcb(e) ==
    IF e.visits <= 1 THEN FSub(FPolicy(e), FInt(kLcbFirstVisitPenalty))
    ELSE Frac(e.lcb, EvalUnit)

\* The edges GetLcbUtilityList puts on its list (lines 946-954): inflated,
\* Active, visited
LcbListed(ch) ==
    {i \in DOMAIN ch : ch[i].inflated /\ ch[i].status = "Active" /\ ch[i].visits > 0}

\* Lines 937-944: the visits of the inflated Active children
LcbParentVisits(ch) ==
    SumOver([i \in DOMAIN ch |-> ch[i].visits],
            {i \in DOMAIN ch : ch[i].inflated /\ ch[i].status = "Active"})

\* A value without the reduction
Ulcb_LcbOnly(ch, i, prm) ==
    LET factor == IF prm.lcb_utility_factor < 0 THEN 0 ELSE prm.lcb_utility_factor
    IN  FAdd(GetLcb(ch[i]), FInt(factor * ch[i].utility))

\* Lines 956-961: ulcb = (lcb + utility) * (1 - lcb_reduction)
\*                        + lcb_reduction * visits / parentvisits,
\* with lcb_utility_factor and lcb_reduction clamped as in lines 928-930;
\* lcb_reduction is in units of 1/EvalUnit
Ulcb(ch, i, prm) ==
    LET factor == IF prm.lcb_utility_factor < 0 THEN 0 ELSE prm.lcb_utility_factor
        clamped == IF prm.lcb_reduction < 0 THEN 0
                   ELSE IF prm.lcb_reduction > EvalUnit THEN EvalUnit
                   ELSE prm.lcb_reduction
        lcb_reduction == Frac(clamped, EvalUnit)
        utility == FInt(factor * ch[i].utility)
    IN  FAdd(FMul(FAdd(GetLcb(ch[i]), utility), FSub(FInt(1), lcb_reduction)),
             FMul(lcb_reduction, Frac(ch[i].visits, LcbParentVisits(ch))))

\* The list in ascending order
LcbBetter_Less(ch, prm, i, j) ==
    \/ FLess(Ulcb(ch, i, prm), Ulcb(ch, j, prm))
    \/ Ulcb(ch, i, prm) = Ulcb(ch, j, prm) /\ ch[i].vertex < ch[j].vertex

\* The order of the sorted list (line 966, std::stable_sort on the reversed
\* range of pairs <ulcb, vertex>) and of the loop of GetBestMove (lines 979-
\* 986, lcb > best_value): entry i comes before entry j
LcbBetter(ch, prm, i, j) ==
    \/ FLess(Ulcb(ch, j, prm), Ulcb(ch, i, prm))
    \/ Ulcb(ch, i, prm) = Ulcb(ch, j, prm) /\ ch[i].vertex > ch[j].vertex

\* The entry the loop of GetBestMove ends with: none comes before it
LcbBestIndex(ch, prm) ==
    CHOOSE i \in LcbListed(ch) :
        \A j \in LcbListed(ch) \ {i} : LcbBetter(ch, prm, i, j)

\* ProbSelectChild, lines 358-365: the prior, less one while the child expands
ProbValue(e) ==
    IF e.inflated /\ e.expanding THEN FSub(FPolicy(e), FInt(1)) ELSE FPolicy(e)

\* ProbSelectChild, lines 350-370: the first edge of the greatest value among
\* those not skipped; 0 stands for best_node == nullptr
ProbBestIndex(ch) ==
    LET cand == {i \in DOMAIN ch : ~Skipped(ch[i])}
    IN  IF cand = {} THEN 0
        ELSE CHOOSE i \in cand :
                 /\ \A j \in cand : ~FLess(ProbValue(ch[i]), ProbValue(ch[j]))
                 /\ \A j \in cand : j < i => FLess(ProbValue(ch[j]), ProbValue(ch[i]))

\* Node::GetBestMove called while no other call is inside the node.  The
\* result is recorded in hist.best_move; with an empty list and no edge left
\* to ProbSelectChild, Inflate(*best_node) dereferences nullptr and the call
\* does not return (crashed).  The model follows the node through one such call.
GetBestMoveCall ==
    /\ Quiescent
    /\ WaitExpandedBreaks
    /\ HaveChildren
    /\ ~hist.best_move.called
    /\ IF LcbListed(children) /= {}
       THEN /\ hist' = [hist EXCEPT !.best_move =
                           [called |-> TRUE, crashed |-> FALSE,
                            vertex |-> children[LcbBestIndex(children, param)].vertex]]
            /\ UNCHANGED children
       ELSE LET best_node == ProbBestIndex(children)
            IN  IF best_node = 0
                THEN /\ hist' = [hist EXCEPT !.best_move.called = TRUE, !.best_move.crashed = TRUE]
                     /\ UNCHANGED children
                ELSE /\ children' = Inflate(children, best_node)
                     /\ hist' = [hist EXCEPT !.best_move =
                                    [called |-> TRUE, crashed |-> FALSE,
                                     vertex |-> children[best_node].vertex]]
    /\ UNCHANGED <<state, pipe, param, nn_cache, expand_state, color, black_wl, avg_black_ownership,
                   status, statVars, score_bouns, popped, pc, loc>>

\* Node::SetActive called on the Node of an inflated child (lines 1099-1104)
SetActiveChild(i, active) ==
    /\ Quiescent
    /\ i \in DOMAIN children
    /\ children[i].inflated
    /\ children' = [children EXCEPT ![i].status =
                       IF IsValid(@) THEN (IF active THEN "Active" ELSE "Pruned") ELSE @]
    /\ UNCHANGED <<state, pipe, param, nn_cache, expand_state, color, black_wl, avg_black_ownership,
                   status, statVars, score_bouns, popped, pc, loc, hist>>

\* ------------------------------------------------- selection in a search
\* gp > visits
ShouldApplyGumbel_NoMinusOne(prm, v) ==
    prm.gumbel /\ prm.gumbel_playouts > v

\* Node::ShouldApplyGumbel, with v the visits of the node
ShouldApplyGumbel(prm, v) ==
    prm.gumbel /\ prm.gumbel_playouts > v - 1

RECURSIVE Log2Floor(_)
Log2Floor(x) == IF x <= 1 THEN 0 ELSE 1 + Log2Floor(x \div 2)
RECURSIVE Pow2(_)
Pow2(k) == IF k = 0 THEN 1 ELSE 2 * Pow2(k - 1)

\* ProcessGumbelLogits, lines 1437-1448: the table of the visits every
\* considered move has at the end of an epoch
GumbelTable(n, adj_considered_moves) ==
    [x \in 0..(adj_considered_moves - 1) |->
        SumOver([i \in 0..(n - 1) |-> Pow2(i)],
                {i \in 0..(n - 1) :
                    adj_considered_moves - x - 1 < adj_considered_moves \div Pow2(i)})]

\* A number of considered moves that is rounded up
AdjConsideredMoves_RoundUp(considered_moves) ==
    LET c == IF considered_moves < 1 THEN 1 ELSE considered_moves
    IN  IF Pow2(Log2Floor(c)) = c THEN c ELSE 2 * Pow2(Log2Floor(c))

\* ProcessGumbelLogits, lines 1440-1441: n = log2(max(1, considered_moves)) + 1
\* truncated to int, adj_considered_moves = pow(2, n - 1)
GumbelRounds(considered_moves) ==
    Log2Floor(IF considered_moves < 1 THEN 1 ELSE considered_moves) + 1
AdjConsideredMoves(considered_moves) == Pow2(GumbelRounds(considered_moves) - 1)

\* Line 1452: visits_per_round = n * adj_considered_moves
VisitsPerRound(considered_moves) ==
    GumbelRounds(considered_moves) * AdjConsideredMoves(considered_moves)

\* A halving that takes one step more
HalvingSteps_OneMore(root_visits, considered_moves) ==
    LET visits_per_round == VisitsPerRound(considered_moves)
        rounds == root_visits \div visits_per_round
        visits_this_round == root_visits - rounds * visits_per_round
    IN  visits_this_round \div AdjConsideredMoves(considered_moves) + 1

\* Lines 1452-1455: m, the halvings made so far in this epoch
HalvingSteps(root_visits, considered_moves) ==
    LET visits_per_round == VisitsPerRound(considered_moves)
        rounds == root_visits \div visits_per_round
        visits_this_round == root_visits - rounds * visits_per_round
    IN  visits_this_round \div AdjConsideredMoves(considered_moves)

\* Lines 1457-1464: height, width and offset after i turns of the loop
RECURSIVE HalvingLoop(_, _)
HalvingLoop(i, adj_considered_moves) ==
    IF i <= 0
    THEN [height |-> 0, width |-> adj_considered_moves, offset |-> 0, t |-> 1]
    ELSE LET before == HalvingLoop(i - 1, adj_considered_moves)
             width == before.width \div 2
         IN  [height |-> before.height + before.t, width |-> width,
              offset |-> before.offset + width, t |-> 2 * before.t]

\* Line 1467: idx = offset + root_visits % width, which is undefined when
\* width is zero; idx is then left out
ScheduleIndex(root_visits, considered_moves) ==
    LET adj_considered_moves == AdjConsideredMoves(considered_moves)
        loop == HalvingLoop(HalvingSteps(root_visits, considered_moves),
                            adj_considered_moves)
    IN  [adj_considered_moves |-> adj_considered_moves,
         m |-> HalvingSteps(root_visits, considered_moves),
         width |-> loop.width, offset |-> loop.offset,
         modulo_by_zero |-> loop.width = 0,
         idx |-> IF loop.width = 0 THEN -1 ELSE loop.offset + (root_visits % loop.width)]

\* A schedule that gives every considered move the same visits
ConsideredVisits_RoundRobin(root_visits, considered_moves) ==
    root_visits \div AdjConsideredMoves(considered_moves)

\* A schedule that asks for one visit more
ConsideredVisits_OneMore(root_visits, considered_moves) == root_visits + 1

\* ProcessGumbelLogits, lines 1437-1471 with only_max_visit false: the
\* visits a child must have to be considered
ConsideredVisits(root_visits, considered_moves) ==
    LET n == GumbelRounds(considered_moves)
        adj_considered_moves == AdjConsideredMoves(considered_moves)
        table == GumbelTable(n, adj_considered_moves)
        visits_per_round == VisitsPerRound(considered_moves)
        rounds == root_visits \div visits_per_round
        visits_this_round == root_visits - rounds * visits_per_round
        m == visits_this_round \div adj_considered_moves
        height == Pow2(m) - 1
        width == adj_considered_moves \div Pow2(m)
        offset == adj_considered_moves - width
        idx == offset + (root_visits % width)
    IN  table[idx] * rounds + height
            + (visits_this_round - m * adj_considered_moves) \div width

\* GumbelSelectChild, lines 1514-1528: the visits of the valid children
GumbelParentVisits(ch) ==
    SumOver([i \in DOMAIN ch |-> ch[i].visits],
            {i \in DOMAIN ch : ch[i].inflated /\ IsValid(ch[i].status)})

\* The children whose logit ProcessGumbelLogits leaves above mval: those it
\* skips (inflated, not Active) and those that have the considered visits
\* (lines 1473-1494).  Each logit holds a fresh Gumbel sample (line 1519).
GumbelUnmasked(ch, prm) ==
    LET considered_moves == IF prm.gumbel_considered_moves < Len(ch)
                            THEN prm.gumbel_considered_moves ELSE Len(ch)
        considered_visists == ConsideredVisits(GumbelParentVisits(ch), considered_moves)
    IN  {i \in DOMAIN ch : \/ ch[i].inflated /\ ch[i].status /= "Active"
                           \/ ch[i].visits = considered_visists}

\* The edges the final loop of GumbelSelectChild (lines 1541-1547) can end
\* with: any child above mval, since the sample decides among them; with
\* all logits at mval, the first child
GumbelChoices(ch, prm) ==
    IF GumbelUnmasked(ch, prm) /= {} THEN GumbelUnmasked(ch, prm) ELSE {1}

\* Node::PuctSelectChild(color, is_root) called by the one thread of a
\* search, is_root being hist.is_root.  ProcessGumbelLogits reads
\* node->GetVisits() of every edge it does not skip (line 1481): with an
\* uninflated edge the call dereferences nullptr (crashed).  The value of
\* the PUCT loop depends on the evaluations below the children, so its
\* result is any edge the loop does not skip.  The search makes the
\* selections of its Gumbel budget and at most MaxPlayouts by PUCT.
PuctSelectChildCall ==
    /\ Quiescent
    /\ WaitExpandedBreaks
    /\ HaveChildren
    /\ hist.pending = 0
    /\ ~hist.last_sel.crashed
    /\ \/ hist.is_root /\ ShouldApplyGumbel(param, visits)
       \/ hist.playouts - hist.gumbel_count < MaxPlayouts
    /\ LET gumbel == hist.is_root /\ ShouldApplyGumbel(param, visits)
           choices == IF gumbel THEN GumbelChoices(children, param) ELSE NotSkipped
           crashed == \/ choices = {}
                      \/ gumbel /\ \E i \in DOMAIN children : ~children[i].inflated
       IN  IF crashed
           THEN /\ hist' = [hist EXCEPT !.last_sel.crashed = TRUE, !.last_sel.gumbel = gumbel]
                /\ UNCHANGED children
           ELSE \E i \in choices :
                   /\ children' = Inflate(children, i)
                   /\ hist' = [hist EXCEPT
                          !.playouts = @ + 1,
                          !.pending = i,
                          !.gumbel_count = IF gumbel THEN @ + 1 ELSE @,
                          !.gumbel_picks = IF gumbel THEN @ \cup {children[i].vertex} ELSE @,
                          !.puct_seen = @ \/ ~gumbel,
                          !.last_sel = [gumbel |-> gumbel, vertex |-> children[i].vertex,
                                        visits |-> visits,
                                        was_unvisited |-> children[i].visits = 0,
                                        was_picked |-> children[i].vertex \in hist.gumbel_picks,
                                        crashed |-> FALSE]]
    /\ UNCHANGED <<state, pipe, param, nn_cache, expand_state, color, black_wl, avg_black_ownership,
                   status, statVars, score_bouns, popped, pc, loc>>

\* -------------------------------------------------------- evaluation cache
\* The cache of network results (utils/cache.h and neural/network.cc are not
\* part of the sources): a fingerprint -> result map with a budget in MiB,
\* entries in the order of insertion, and the set of fingerprints whose
\* evaluation is in flight.  Memory is counted in entries, EntriesPerMiB of
\* which fit in one MiB.
Fingerprints == 1..NumFingerprints
ResultInputs == 1..2

\* cache_memory_mib of an engine started with one MiB
CacheInit == [entries |-> <<>>, budget |-> 1, in_flight |-> {}]

EstimatedMemory(c) == Len(c.entries)
Capacity(c) == c.budget * EntriesPerMiB

\* probe(fingerprint): the result stored for it, 0 when there is none
Probe(c, fp) ==
    IF \E i \in DOMAIN c.entries : c.entries[i].fingerprint = fp
    THEN c.entries[CHOOSE i \in DOMAIN c.entries : c.entries[i].fingerprint = fp].result
    ELSE 0

\* An insertion that never evicts
OverBudget_Never(c) == FALSE

\* The total estimated memory exceeds the MiB budget
OverBudget(c) == EstimatedMemory(c) > Capacity(c)

\* Entries are evicted, oldest first, until the memory is within the budget
RECURSIVE Evict(_)
Evict(c) ==
    IF OverBudget(c) /\ c.entries /= <<>>
    THEN Evict([c EXCEPT !.entries = Tail(@)])
    ELSE c

\* insert(fingerprint, result): the entry becomes the most recent one (an
\* entry the fingerprint already had is replaced), then entries are evicted
Insert(c, fp, result) ==
    Evict([c EXCEPT !.entries =
              Append(SelectSeq(@, LAMBDA e : e.fingerprint /= fp),
                     [fingerprint |-> fp, result |-> result])])

\* resize(MiB)
Resize(c, mib) == Evict([c EXCEPT !.budget = mib])

\* clear()
Clear(c) == [c EXCEPT !.entries = <<>>]

\* A caller that never waits for an evaluation in flight
MustWait_Never(c, fp) == FALSE

\* Another caller has registered the fingerprint and has not completed
MustWait(c, fp) == fp \in c.in_flight

\* Network::GetOutput with read_cache and write_cache: under the mutex of
\* the cache the caller probes; on a miss it waits if the fingerprint is in
\* flight and registers it otherwise
GetOutput_Probe(t, fp) ==
    /\ pc[t] \in {"idle", "go_wait"}
    /\ IF pc[t] = "idle"
       THEN /\ hist.outputs[t] = 0
            /\ loc' = [loc EXCEPT ![t] = [NoLocals EXCEPT !.op = "GetOutput", !.fingerprint = fp]]
            /\ hist' = [hist EXCEPT !.requested = @ \cup {fp}]
       ELSE /\ fp = loc[t].fingerprint
            /\ ~MustWait(nn_cache, fp)
            /\ UNCHANGED <<loc, hist>>
    /\ IF Probe(nn_cache, fp) /= 0
       THEN /\ pc' = [pc EXCEPT ![t] = "go_hit"]
            /\ UNCHANGED nn_cache
       ELSE IF MustWait(nn_cache, fp)
       THEN /\ pc' = [pc EXCEPT ![t] = "go_wait"]
            /\ UNCHANGED nn_cache
       ELSE /\ pc' = [pc EXCEPT ![t] = "go_eval"]
            /\ nn_cache' = [nn_cache EXCEPT !.in_flight = @ \cup {fp}]
    /\ UNCHANGED <<state, pipe, param, nodeVars, status, statVars, score_bouns, popped>>

\* The caller reads the result from the cache and returns it
GetOutput_Hit(t) ==
    /\ pc[t] = "go_hit"
    /\ IF Probe(nn_cache, loc[t].fingerprint) /= 0
       THEN /\ hist' = [hist EXCEPT !.outputs[t] = Probe(nn_cache, loc[t].fingerprint)]
            /\ Return(t)
       ELSE /\ pc' = [pc EXCEPT ![t] = "go_wait"]
            /\ UNCHANGED <<loc, hist>>
    /\ UNCHANGED <<state, pipe, param, nn_cache, nodeVars, status, statVars, score_bouns, popped>>

\* The network evaluator is invoked; it may block, and two evaluations of
\* one position need not agree (the symmetry of the ensemble is random)
GetOutput_Evaluate(t) ==
    /\ pc[t] = "go_eval"
    /\ \E result \in ResultInputs : loc' = [loc EXCEPT ![t].result = result]
    /\ pc' = [pc EXCEPT ![t] = "go_insert"]
    /\ hist' = [hist EXCEPT !.evaluations = @ + 1]
    /\ UNCHANGED <<state, pipe, param, nn_cache, nodeVars, status, statVars, score_bouns, popped>>

\* The first caller completes: it inserts the result, takes the fingerprint
\* out of the in-flight set, wakes the waiting callers and returns
GetOutput_Insert(t) ==
    /\ pc[t] = "go_insert"
    /\ nn_cache' = [Insert(nn_cache, loc[t].fingerprint, loc[t].result)
                       EXCEPT !.in_flight = @ \ {loc[t].fingerprint}]
    /\ hist' = [hist EXCEPT !.outputs[t] = loc[t].result]
    /\ Return(t)
    /\ UNCHANGED <<state, pipe, param, nodeVars, status, statVars, score_bouns, popped>>

GetOutput(t) ==
    \/ \E fp \in Fingerprints : GetOutput_Probe(t, fp)
    \/ GetOutput_Hit(t)
    \/ GetOutput_Evaluate(t)
    \/ GetOutput_Insert(t)

\* The operations of the cache called one after another
CacheInsertCall(fp, result) ==
    /\ Quiescent
    /\ hist.inserts < MaxInserts
    /\ nn_cache' = Insert(nn_cache, fp, result)
    /\ hist' = [hist EXCEPT !.inserts = @ + 1, !.last_inserted = fp,
                            !.min_budget = nn_cache.budget,
                            !.evicted = @ \/ (/\ Probe(nn_cache, fp) = 0
                                              /\ EstimatedMemory(nn_cache') <= EstimatedMemory(nn_cache))]
    /\ UNCHANGED <<state, pipe, param, nodeVars, status, statVars, score_bouns, popped, pc, loc>>

\* Network::SetCacheSize
SetCacheSize(mib) ==
    /\ Quiescent
    /\ nn_cache' = Resize(nn_cache, mib)
    /\ hist' = [hist EXCEPT !.min_budget = IF mib < @ THEN mib ELSE @]
    /\ UNCHANGED <<state, pipe, param, nodeVars, status, statVars, score_bouns, popped, pc, loc>>

\* Network::ClearCache
ClearCache ==
    /\ Quiescent
    /\ nn_cache' = Clear(nn_cache)
    /\ hist' = [hist EXCEPT !.last_inserted = 0]
    /\ UNCHANGED <<state, pipe, param, nodeVars, status, statVars, score_bouns, popped, pc, loc>>

\* ------------------------------------------------------------------ status
\* Node::SetActive, line 1100: the IsValid() load
SetActive_IsValid(t, active) ==
    /\ pc[t] = "idle"
    /\ pc' = [pc EXCEPT ![t] = "sa_store"]
    /\ loc' = [loc EXCEPT ![t] = [NoLocals EXCEPT !.op = "SetActive", !.active = active,
                                     !.valid = IsValid(status), !.before = status]]
    /\ Len(hist.calls) < MaxStatusCalls
    /\ hist' = [hist EXCEPT !.calls = Append(@, IF active THEN "SetActive(true)"
                                                          ELSE "SetActive(false)")]
    /\ UNCHANGED <<state, pipe, param, nn_cache, nodeVars, status, statVars, score_bouns, popped>>

\* Node::SetActive, lines 1101-1102: the store, when the load saw a valid node
SetActive_Store(t) ==
    /\ pc[t] = "sa_store"
    /\ status' = IF loc[t].valid
                 THEN (IF loc[t].active THEN "Active" ELSE "Pruned")
                 ELSE status
    /\ Return(t)
    /\ UNCHANGED <<state, pipe, param, nn_cache, nodeVars, statVars, score_bouns, popped, hist>>

\* Node::Invalidate, line 1107: the IsValid() load
Invalidate_IsValid(t) ==
    /\ pc[t] = "idle"
    /\ pc' = [pc EXCEPT ![t] = "inv_store"]
    /\ loc' = [loc EXCEPT ![t] = [NoLocals EXCEPT !.op = "Invalidate",
                                     !.valid = IsValid(status), !.before = status]]
    /\ Len(hist.calls) < MaxStatusCalls
    /\ hist' = [hist EXCEPT !.calls = Append(@, "Invalidate")]
    /\ UNCHANGED <<state, pipe, param, nn_cache, nodeVars, status, statVars, score_bouns, popped>>

\* Node::Invalidate, line 1108
Invalidate_Store(t) ==
    /\ pc[t] = "inv_store"
    /\ status' = IF loc[t].valid THEN "Invalid" ELSE status
    /\ Return(t)
    /\ hist' = [hist EXCEPT !.invalidate_returned = TRUE]
    /\ UNCHANGED <<state, pipe, param, nn_cache, nodeVars, statVars, score_bouns, popped>>

\* ------------------------------------------------------------------ backup
\* A delta that squares old_delta
WelfordDelta_OldSquared(eval, old_acc_eval, old_visits) ==
    LET e == Frac(eval, EvalUnit)
        acc == Frac(old_acc_eval, EvalUnit)
        old_delta == IF old_visits > 0 THEN FSub(e, FDivInt(acc, old_visits)) ELSE FInt(0)
    IN  FMul(old_delta, old_delta)

\* Update, lines 601-608: WelfordDelta in exact arithmetic (eval and
\* old_acc_eval arrive in halves)
WelfordDelta(eval, old_acc_eval, old_visits) ==
    LET e == Frac(eval, EvalUnit)
        acc == Frac(old_acc_eval, EvalUnit)
        old_delta == IF old_visits > 0 THEN FSub(e, FDivInt(acc, old_visits)) ELSE FInt(0)
        new_delta == FSub(e, FDivInt(FAdd(acc, e), old_visits + 1))
    IN  FMul(old_delta, new_delta)

\* The values a search hands to Update (NodeEvals): Black's win rate and the
\* draw rate in halves, the final score in points, the ownership in {-1,0,1}
EvalInputs ==
    { [black_wl |-> 0, draw |-> 0, black_final_score |-> -1, black_ownership |-> -1],
      [black_wl |-> EvalUnit, draw |-> 0, black_final_score |-> 2, black_ownership |-> 1],
      [black_wl |-> 1, draw |-> EvalUnit, black_final_score |-> 0, black_ownership |-> 0] }

\* Update, lines 630-637: the new average ownership of one intersection,
\* old_visits being the visit count before the call
OwnershipStep_NewVisits(eval_owner, avg_owner, old_visits) ==
    LET diff_owner == FDivInt(FSub(eval_owner, avg_owner), old_visits + 2)
    IN  FAdd(avg_owner, diff_owner)
OwnershipStep(eval_owner, avg_owner, old_visits) ==
    LET diff_owner == FDivInt(FSub(eval_owner, avg_owner), old_visits + 1)
    IN  FAdd(avg_owner, diff_owner)

\* Update, lines 611-614: the call is entered, accumulated_black_wl_ is loaded
Update_LoadAccumulated(t, evals) ==
    /\ pc[t] = "idle"
    /\ hist.updates_started < MaxUpdates
    /\ pc' = [pc EXCEPT ![t] = "up_visits"]
    /\ loc' = [loc EXCEPT ![t] = [NoLocals EXCEPT !.op = "Update", !.evals = evals,
                                     !.old_acc_eval = accumulated_black_wl]]
    /\ hist' = [hist EXCEPT !.updates_started = @ + 1]
    /\ UNCHANGED <<state, pipe, param, nn_cache, nodeVars, status, statVars, score_bouns, popped>>

\* Update, line 616: visits_.load
Update_LoadVisits(t) ==
    /\ pc[t] = "up_visits"
    /\ loc' = [loc EXCEPT ![t].old_visits = visits]
    /\ pc' = [pc EXCEPT ![t] = "up_fadd"]
    /\ UNCHANGED <<state, pipe, param, nn_cache, nodeVars, status, statVars, score_bouns, popped, hist>>

\* A store of the visit count loaded at line 616, plus one
FetchAddVisits_Stale(t) == loc[t].old_visits + 1

\* fetch_sub in the place of fetch_add
FetchAddVisits_Sub(t) == visits - 1

\* Update, line 624: visits_.fetch_add(1)
FetchAddVisits(t) == visits + 1

Update_FetchAddVisits(t) ==
    /\ pc[t] = "up_fadd"
    /\ visits' = FetchAddVisits(t)
    /\ pc' = [pc EXCEPT ![t] = "up_sq"]
    /\ UNCHANGED <<state, pipe, param, nn_cache, nodeVars, status, accumulated_black_wl, accumulated_draw,
                   accumulated_black_fs, squared_eval_diff, score_bouns, popped,
                   loc, hist>>

\* AtomicFetchAdd of utils/atomic.h: an atomic read-modify-write addition
AtomicFetchAdd(f, d) == f + d

\* Update, line 625
Update_AddSquaredEvalDiff(t) ==
    /\ pc[t] = "up_sq"
    /\ squared_eval_diff' =
           FAdd(squared_eval_diff,
                WelfordDelta(loc[t].evals.black_wl, loc[t].old_acc_eval, loc[t].old_visits))
    /\ pc' = [pc EXCEPT ![t] = "up_wl"]
    /\ UNCHANGED <<state, pipe, param, nn_cache, nodeVars, status, visits, accumulated_black_wl,
                   accumulated_draw, accumulated_black_fs, score_bouns, popped,
                   loc, hist>>

\* Update, line 626
Update_AddBlackWl(t) ==
    /\ pc[t] = "up_wl"
    /\ accumulated_black_wl' = AtomicFetchAdd(accumulated_black_wl, loc[t].evals.black_wl)
    /\ pc' = [pc EXCEPT ![t] = "up_draw"]
    /\ hist' = [hist EXCEPT !.wl_adds = @ + 1]
    /\ UNCHANGED <<state, pipe, param, nn_cache, nodeVars, status, visits, accumulated_draw,
                   accumulated_black_fs, squared_eval_diff, score_bouns, popped, loc>>

\* Update, line 627
Update_AddDraw(t) ==
    /\ pc[t] = "up_draw"
    /\ accumulated_draw' = AtomicFetchAdd(accumulated_draw, loc[t].evals.draw)
    /\ pc' = [pc EXCEPT ![t] = "up_fs"]
    /\ hist' = [hist EXCEPT !.draw_adds = @ + 1]
    /\ UNCHANGED <<state, pipe, param, nn_cache, nodeVars, status, visits, accumulated_black_wl,
                   accumulated_black_fs, squared_eval_diff, score_bouns, popped, loc>>

\* Update, line 628
Update_AddFinalScore(t) ==
    /\ pc[t] = "up_fs"
    /\ accumulated_black_fs' = AtomicFetchAdd(accumulated_black_fs, loc[t].evals.black_final_score)
    /\ pc' = [pc EXCEPT ![t] = "up_own"]
    /\ hist' = [hist EXCEPT !.fs_adds = @ + 1]
    /\ UNCHANGED <<state, pipe, param, nn_cache, nodeVars, status, visits, accumulated_black_wl,
                   accumulated_draw, squared_eval_diff, score_bouns, popped, loc>>

\* Update, lines 630-639: the ownership means, under os_mtx_; the call returns
Update_Ownership(t) ==
    /\ pc[t] = "up_own"
    /\ avg_black_ownership' =
           [idx \in Indices |->
               LET eval_owner == FInt(loc[t].evals.black_ownership)
                   avg_owner == avg_black_ownership[idx]
               IN  OwnershipStep(eval_owner, avg_owner, loc[t].old_visits)]
    /\ Return(t)
    /\ hist' = [hist EXCEPT
           !.updates_done = @ + 1,
           !.sum_wl = @ + loc[t].evals.black_wl,
           !.sum_sq = @ + loc[t].evals.black_wl * loc[t].evals.black_wl,
           !.sum_draw = @ + loc[t].evals.draw,
           !.sum_fs = @ + loc[t].evals.black_final_score]
    /\ UNCHANGED <<state, pipe, param, nn_cache, expand_state, color, children, black_wl, status,
                   statVars, score_bouns, popped>>

Update(t) ==
    \/ \E evals \in EvalInputs : Update_LoadAccumulated(t, evals)
    \/ Update_LoadVisits(t)
    \/ Update_FetchAddVisits(t)
    \/ Update_AddSquaredEvalDiff(t)
    \/ Update_AddBlackWl(t)
    \/ Update_AddDraw(t)
    \/ Update_AddFinalScore(t)
    \/ Update_Ownership(t)

\* Node::SetVisits (the model follows the node through one such call)
SetVisits(v) ==
    /\ ~hist.visits_set
    /\ visits' = v
    /\ hist' = [hist EXCEPT !.visits_set = TRUE]
    /\ UNCHANGED <<state, pipe, param, nn_cache, nodeVars, status, accumulated_black_wl, accumulated_draw,
                   accumulated_black_fs, squared_eval_diff, score_bouns, popped,
                   pc, loc>>

\* ------------------------------------------------------------ initial state
HistInit ==
    [cas_lost |-> FALSE, nodelist |-> <<>>, removed |-> {},
     evaluator_failed |-> FALSE, expand_true |-> 0, terminal_true |-> 0,
     updates_started |-> 0, updates_done |-> 0,
     sum_wl |-> 0, sum_draw |-> 0, sum_fs |-> 0,
     wl_adds |-> 0, draw_adds |-> 0, fs_adds |-> 0, visits_set |-> FALSE,
     calls |-> <<>>, best_move |-> [called |-> FALSE, crashed |-> FALSE, vertex |-> 0],
     evaluations |-> 0, requested |-> {}, outputs |-> [t \in Threads |-> 0],
     inserts |-> 0, last_inserted |-> 0, min_budget |-> 0, evicted |-> FALSE,
     is_root |-> TRUE, playouts |-> 0, backed_up |-> 0, pending |-> 0,
     gumbel_count |-> 0, gumbel_picks |-> {}, puct_seen |-> FALSE,
     last_sel |-> [gumbel |-> FALSE, vertex |-> 0, visits |-> 0, was_unvisited |-> FALSE,
                   was_picked |-> FALSE, crashed |-> FALSE],
     allocated |-> [v \in 0..kPass |-> 0], null_returned |-> FALSE,
     values |-> <<>>, last_pop |-> [calls |-> 0, vertex |-> 0],
     new_root_prepared |-> FALSE, expand_false |-> 0, waited |-> FALSE,
     root_prepared |-> FALSE,
     wl |-> [called |-> FALSE, color |-> kBlack, use_virtual_loss |-> FALSE,
             value |-> [n |-> 0, d |-> 1]],
     tq |-> [called |-> FALSE, from_lcb |-> FALSE, v |-> 0, reads |-> {}, z |-> 0],
     invalidate_returned |-> FALSE, sum_sq |-> 0, sum_own |-> 0,
     started |-> 0, finished |-> {}, saved |-> <<>>, save_failed |-> FALSE,
     returned |-> [called |-> FALSE, op |-> "none", selectable |-> FALSE, crashed |-> FALSE,
                   vertex |-> 0, status |-> "Active"],
     schedule |-> [called |-> FALSE, root_visits |-> 0, considered_moves |-> 0,
                   visits_per_round |-> 0, rounds |-> 0, index |-> ScheduleIndex(0, 1),
                   considered_visists |-> 0]]

\* Node::Update run alone: lines 611-639 in one step
UpdateCall(evals) ==
    /\ visits' = visits + 1
    /\ squared_eval_diff' =
           FAdd(squared_eval_diff, WelfordDelta(evals.black_wl, accumulated_black_wl, visits))
    /\ accumulated_black_wl' = AtomicFetchAdd(accumulated_black_wl, evals.black_wl)
    /\ accumulated_draw' = AtomicFetchAdd(accumulated_draw, evals.draw)
    /\ accumulated_black_fs' = AtomicFetchAdd(accumulated_black_fs, evals.black_final_score)
    /\ avg_black_ownership' =
           [idx \in Indices |->
               OwnershipStep(FInt(evals.black_ownership), avg_black_ownership[idx], visits)]

\* Update calls made one after another, each with any evaluation
SerialUpdateCall ==
    /\ Quiescent
    /\ visits < MaxSerialUpdates
    /\ \E evals \in EvalInputs :
          /\ UpdateCall(evals)
          /\ hist' = [hist EXCEPT !.values = Append(@, evals.black_wl),
                                  !.updates_done = @ + 1,
                                  !.sum_wl = @ + evals.black_wl,
                                  !.sum_sq = @ + evals.black_wl * evals.black_wl,
                                  !.sum_own = @ + evals.black_ownership]
    /\ UNCHANGED <<state, pipe, param, nn_cache, expand_state, color, children, black_wl, status,
                   score_bouns, popped, pc, loc>>

\* The evaluation of the playouts of a search: a win for Black
SearchEvalInputs == {e \in EvalInputs : e.black_wl = EvalUnit}

\* The engine backs up the evaluation of the root itself before the first
\* playout
RootEvalCall ==
    /\ Quiescent
    /\ WaitExpandedBreaks
    /\ hist.playouts = 0
    /\ visits = 0
    /\ \E evals \in SearchEvalInputs : UpdateCall(evals)
    /\ UNCHANGED <<state, pipe, param, nn_cache, expand_state, color, children, black_wl, status,
                   score_bouns, popped, pc, loc, hist>>

\* The backup of a playout: the search thread walks back along its path and
\* calls Update on each node, here the selected child and this node
BackupCall ==
    /\ Quiescent
    /\ hist.pending /= 0
    /\ children' = [children EXCEPT ![hist.pending].visits = @ + 1]
    /\ \E evals \in SearchEvalInputs : UpdateCall(evals)
    /\ hist' = [hist EXCEPT !.pending = 0, !.backed_up = @ + 1]
    /\ UNCHANGED <<state, pipe, param, nn_cache, expand_state, color, black_wl, status,
                   score_bouns, popped, pc, loc>>

\* The boards and network outputs the expansion is run on
LegalInputs == {0..(k - 1) : k \in 0..NumIntersections}
ProbInputs == {[i \in Indices |-> 1 + (i % 2)]}
\* Ko hashes: the board has hash 1, a move at index 0 gives hash 2, any
\* other move hash 3; the position before the last move had hash 2 or there
\* was none
KoHashInput == [i \in Indices |-> IF i = 0 THEN 2 ELSE 3]
KoHistoryInputs == {<<1>>, <<2, 1>>}
StateInputs ==
    {[to_move |-> c, stm_winrate |-> EvalUnit, legal |-> L, probabilities |-> p,
      pass_probability |-> p[0], symm_dup |-> {},
      ko_hash_history |-> h, move_ko_hash |-> KoHashInput] :
        c \in {kBlack, kWhite}, L \in LegalInputs, p \in ProbInputs, h \in KoHistoryInputs}
ParamInputs == [first_pass_bonus : {TRUE}]

\* The boards and network outputs for the node list: any set of legal
\* moves, any of them dropped by symmetry pruning as long as an earlier one
\* was listed, policies that may all be zero
GatherInputs ==
    {[to_move |-> kBlack, stm_winrate |-> EvalUnit, legal |-> L, probabilities |-> p,
      pass_probability |-> pp, symm_dup |-> D,
      ko_hash_history |-> h, move_ko_hash |-> KoHashInput] :
        L \in SUBSET Indices, D \in SUBSET Indices, p \in [Indices -> 0..1],
        pp \in 0..2, h \in KoHistoryInputs}
BaseState == CHOOSE st \in StateInputs :
    st.to_move = kBlack /\ st.legal = Indices /\ st.pass_probability = 1
        /\ st.ko_hash_history = <<1>> /\ st.probabilities[0] = 1

\* A freshly constructed node (Node::Node), no call in progress
InitNode ==
    /\ expand_state = NodeDefaults.expand_state
    /\ color = NodeDefaults.color
    /\ children = NodeDefaults.children
    /\ black_wl = NodeDefaults.black_wl
    /\ status = NodeDefaults.status
    /\ visits = NodeDefaults.visits
    /\ accumulated_black_wl = NodeDefaults.accumulated_black_wl
    /\ accumulated_draw = NodeDefaults.accumulated_draw
    /\ accumulated_black_fs = NodeDefaults.accumulated_black_fs
    /\ squared_eval_diff = NodeDefaults.squared_eval_diff
    /\ avg_black_ownership = NodeDefaults.avg_black_ownership
    /\ score_bouns = NodeDefaults.score_bouns
    /\ popped = [vertex |-> -1, score_bouns |-> 0, null |-> TRUE]
    /\ nn_cache = CacheInit
    /\ pipe = PipeDefaults(0)
    /\ pc = [t \in Threads |-> "idle"]
    /\ loc = [t \in Threads |-> NoLocals]
    /\ hist = HistInit

Init ==
    /\ state \in StateInputs
    /\ param \in ParamInputs
    /\ InitNode

InitBase ==
    /\ state = BaseState
    /\ param \in ParamInputs
    /\ InitNode

\* Boards for the candidate loop: empty, or with one white stone in the
\* corner; the move number is the number of stones, or beyond the board size
BoardInputs ==
    {[board_size |-> b, stones |-> S, move_number |-> m, to_move |-> kBlack] :
        b \in 1..MaxBoardSize, S \in {{}, {<<0, kWhite>>}}, m \in 0..(MaxBoardSize + 2)}
SymmParamInputs == [first_pass_bonus : {TRUE}, symm_pruning : BOOLEAN]

InitBoard ==
    /\ state \in BoardInputs
    /\ state.move_number \in {Cardinality(state.stones), state.board_size + 1}
    /\ param \in SymmParamInputs
    /\ InitNode

\* Positions for the superko test: a history of one to three earlier ko
\* hashes, and any ko hash after each move
SuperkoInputs ==
    {[to_move |-> kBlack, stm_winrate |-> EvalUnit, legal |-> L,
      probabilities |-> [i \in Indices |-> 1 + (i % 2)],
      pass_probability |-> 1, symm_dup |-> {},
      ko_hash_history |-> h, move_ko_hash |-> m] :
        L \in {Indices, Indices \ {0}},
        h \in {<<1>>, <<2, 1>>, <<3, 1>>, <<2, 3, 1>>},
        m \in [Indices -> 2..4]}

InitSuperko ==
    /\ state \in SuperkoInputs
    /\ param \in ParamInputs
    /\ InitNode

\* A root after a search: three children in the order of their priors, each
\* uninflated, or inflated and unvisited (expanding or not), or visited once,
\* or visited twice with its own lower confidence bound and score utility
ChildStatInputs ==
    {[inflated |-> FALSE, visits |-> 0, lcb |-> 0, utility |-> 0, expanding |-> FALSE]}
    \cup {[inflated |-> TRUE, visits |-> 0, lcb |-> 0, utility |-> 0, expanding |-> x] :
              x \in BOOLEAN}
    \cup {[inflated |-> TRUE, visits |-> 1, lcb |-> 0, utility |-> 0, expanding |-> FALSE]}
    \cup {[inflated |-> TRUE, visits |-> 2, lcb |-> l, utility |-> u, expanding |-> FALSE] :
              l \in 0..1, u \in 0..1}

SearchedEdge(vertex, pnum, pden, st) ==
    [Edge(vertex, pnum, pden) EXCEPT !.inflated = st.inflated, !.visits = st.visits,
                                     !.lcb = st.lcb, !.utility = st.utility,
                                     !.expanding = st.expanding]

SearchedChildrenInputs ==
    {<<SearchedEdge(0, 2, 4, a), SearchedEdge(1, 1, 4, b), SearchedEdge(kPass, 1, 4, c)>> :
        a \in ChildStatInputs, b \in ChildStatInputs, c \in ChildStatInputs}

BestMoveParamInputs ==
    [first_pass_bonus : {TRUE}, lcb_utility_factor : 0..1, lcb_reduction : {0, 1, EvalUnit + 1}]

InitBestMove ==
    /\ state = BaseState
    /\ param \in BestMoveParamInputs
    /\ expand_state = "Expanded"
    /\ color = state.to_move
    /\ children \in SearchedChildrenInputs
    /\ black_wl = NetBlackWl(state)
    /\ status = NodeDefaults.status
    /\ visits = 1 + SumOver([i \in DOMAIN children |-> children[i].visits], DOMAIN children)
    /\ accumulated_black_wl = NodeDefaults.accumulated_black_wl
    /\ accumulated_draw = NodeDefaults.accumulated_draw
    /\ accumulated_black_fs = NodeDefaults.accumulated_black_fs
    /\ squared_eval_diff = NodeDefaults.squared_eval_diff
    /\ avg_black_ownership = NodeDefaults.avg_black_ownership
    /\ score_bouns = NodeDefaults.score_bouns
    /\ popped = [vertex |-> -1, score_bouns |-> 0, null |-> TRUE]
    /\ nn_cache = CacheInit
    /\ pipe = PipeDefaults(0)
    /\ pc = [t \in Threads |-> "idle"]
    /\ loc = [t \in Threads |-> NoLocals]
    /\ hist = HistInit

\* A root after a search with --lcb-reduction 1 (or more, which is clamped
\* to 1): its children as above, or visited three times
MostVisitsStatInputs ==
    ChildStatInputs
    \cup {[inflated |-> TRUE, visits |-> 3, lcb |-> l, utility |-> u, expanding |-> FALSE] :
              l \in 0..1, u \in 0..1}

MostVisitsParamInputs ==
    [first_pass_bonus : {TRUE}, lcb_utility_factor : 0..1,
     lcb_reduction : {EvalUnit, EvalUnit + 1}]

InitMostVisits ==
    /\ state = BaseState
    /\ param \in MostVisitsParamInputs
    /\ expand_state = "Expanded"
    /\ color = state.to_move
    /\ children \in
           {<<SearchedEdge(0, 2, 4, a), SearchedEdge(1, 1, 4, b), SearchedEdge(kPass, 1, 4, c)>> :
               a \in MostVisitsStatInputs, b \in MostVisitsStatInputs,
               c \in MostVisitsStatInputs}
    /\ black_wl = NetBlackWl(state)
    /\ status = NodeDefaults.status
    /\ visits = 1 + SumOver([i \in DOMAIN children |-> children[i].visits], DOMAIN children)
    /\ accumulated_black_wl = NodeDefaults.accumulated_black_wl
    /\ accumulated_draw = NodeDefaults.accumulated_draw
    /\ accumulated_black_fs = NodeDefaults.accumulated_black_fs
    /\ squared_eval_diff = NodeDefaults.squared_eval_diff
    /\ avg_black_ownership = NodeDefaults.avg_black_ownership
    /\ score_bouns = NodeDefaults.score_bouns
    /\ popped = [vertex |-> -1, score_bouns |-> 0, null |-> TRUE]
    /\ nn_cache = CacheInit
    /\ pipe = PipeDefaults(0)
    /\ pc = [t \in Threads |-> "idle"]
    /\ loc = [t \in Threads |-> NoLocals]
    /\ hist = HistInit

\* The root of a search after PrepareRootNode: NumRootChildren children at
\* vertices other than the pass, all inflated, in the order of their priors
SearchRootVertices == {v \in 0..NumRootChildren : v /= kPass}

RECURSIVE SearchRootChildren(_)
SearchRootChildren(V) ==
    IF V = {} THEN <<>>
    ELSE LET v == CHOOSE x \in V : \A y \in V : x <= y
         IN  <<[Edge(v, IF v = 0 THEN 2 ELSE 1, NumRootChildren + 1) EXCEPT !.inflated = TRUE]>>
                 \o SearchRootChildren(V \ {v})

SearchParamInputs ==
    [first_pass_bonus : {TRUE}, gumbel : BOOLEAN, gumbel_playouts : {0, 2, 25},
     gumbel_considered_moves : {1, 2, 4}]

InitSearch ==
    /\ state = BaseState
    /\ param \in SearchParamInputs
    /\ expand_state = "Expanded"
    /\ color = state.to_move
    /\ children = SearchRootChildren(SearchRootVertices)
    /\ black_wl = NetBlackWl(state)
    /\ status = NodeDefaults.status
    /\ visits = NodeDefaults.visits
    /\ accumulated_black_wl = NodeDefaults.accumulated_black_wl
    /\ accumulated_draw = NodeDefaults.accumulated_draw
    /\ accumulated_black_fs = NodeDefaults.accumulated_black_fs
    /\ squared_eval_diff = NodeDefaults.squared_eval_diff
    /\ avg_black_ownership = NodeDefaults.avg_black_ownership
    /\ score_bouns = NodeDefaults.score_bouns
    /\ popped = [vertex |-> -1, score_bouns |-> 0, null |-> TRUE]
    /\ nn_cache = CacheInit
    /\ pipe = PipeDefaults(0)
    /\ pc = [t \in Threads |-> "idle"]
    /\ loc = [t \in Threads |-> NoLocals]
    /\ \E r \in BOOLEAN : hist = [HistInit EXCEPT !.is_root = r]

\* An expanded node none of whose edges is inflated: the move at index 0,
\* the move at index 1 or not, and the pass
InflateChildrenInputs ==
    {<<Edge(0, 3, 4), Edge(kPass, 1, 4)>>, <<Edge(0, 2, 4), Edge(1, 1, 4), Edge(kPass, 1, 4)>>}

InitInflate ==
    /\ state = BaseState
    /\ param \in ParamInputs
    /\ expand_state = "Expanded"
    /\ color = state.to_move
    /\ children \in InflateChildrenInputs
    /\ black_wl = NetBlackWl(state)
    /\ status = NodeDefaults.status
    /\ visits = NodeDefaults.visits
    /\ accumulated_black_wl = NodeDefaults.accumulated_black_wl
    /\ accumulated_draw = NodeDefaults.accumulated_draw
    /\ accumulated_black_fs = NodeDefaults.accumulated_black_fs
    /\ squared_eval_diff = NodeDefaults.squared_eval_diff
    /\ avg_black_ownership = NodeDefaults.avg_black_ownership
    /\ score_bouns = NodeDefaults.score_bouns
    /\ popped = [vertex |-> -1, score_bouns |-> 0, null |-> TRUE]
    /\ nn_cache = CacheInit
    /\ pipe = PipeDefaults(0)
    /\ pc = [t \in Threads |-> "idle"]
    /\ loc = [t \in Threads |-> NoLocals]
    /\ hist = HistInit

\* A root before its search: a fresh node, or the Node a PopChild handed
\* out (which may carry the bonus of a pass child); first_pass_bonus on or off
RootParamInputs == [first_pass_bonus : BOOLEAN]

InitRoot ==
    /\ state \in StateInputs
    /\ param \in RootParamInputs
    /\ expand_state = NodeDefaults.expand_state
    /\ color = NodeDefaults.color
    /\ children = NodeDefaults.children
    /\ black_wl = NodeDefaults.black_wl
    /\ status = NodeDefaults.status
    /\ visits = NodeDefaults.visits
    /\ accumulated_black_wl = NodeDefaults.accumulated_black_wl
    /\ accumulated_draw = NodeDefaults.accumulated_draw
    /\ accumulated_black_fs = NodeDefaults.accumulated_black_fs
    /\ squared_eval_diff = NodeDefaults.squared_eval_diff
    /\ avg_black_ownership = NodeDefaults.avg_black_ownership
    /\ score_bouns \in {NodeDefaults.score_bouns, 1}
    /\ popped = [vertex |-> -1, score_bouns |-> 0, null |-> TRUE]
    /\ nn_cache = CacheInit
    /\ pipe = PipeDefaults(0)
    /\ pc = [t \in Threads |-> "idle"]
    /\ loc = [t \in Threads |-> NoLocals]
    /\ hist = HistInit

\* A fresh node on a board with at most one legal move besides the pass
InitWait ==
    /\ state \in {st \in StateInputs : Cardinality(st.legal) <= 1}
    /\ param \in ParamInputs
    /\ InitNode

\* Boards with no, one or two consecutive passes behind them
PassesInputs ==
    {[to_move |-> BaseState.to_move, stm_winrate |-> BaseState.stm_winrate,
      legal |-> BaseState.legal, probabilities |-> BaseState.probabilities,
      pass_probability |-> BaseState.pass_probability, symm_dup |-> BaseState.symm_dup,
      ko_hash_history |-> BaseState.ko_hash_history,
      move_ko_hash |-> BaseState.move_ko_hash, passes |-> n] : n \in 0..2}

InitPasses ==
    /\ state \in PassesInputs
    /\ param \in ParamInputs
    /\ InitNode

\* An engine with an empty cache of any budget
InitCache ==
    /\ state = BaseState
    /\ param \in ParamInputs
    /\ expand_state = NodeDefaults.expand_state
    /\ color = NodeDefaults.color
    /\ children = NodeDefaults.children
    /\ black_wl = NodeDefaults.black_wl
    /\ status = NodeDefaults.status
    /\ visits = NodeDefaults.visits
    /\ accumulated_black_wl = NodeDefaults.accumulated_black_wl
    /\ accumulated_draw = NodeDefaults.accumulated_draw
    /\ accumulated_black_fs = NodeDefaults.accumulated_black_fs
    /\ squared_eval_diff = NodeDefaults.squared_eval_diff
    /\ avg_black_ownership = NodeDefaults.avg_black_ownership
    /\ score_bouns = NodeDefaults.score_bouns
    /\ popped = [vertex |-> -1, score_bouns |-> 0, null |-> TRUE]
    /\ \E mib \in 0..MaxMiB : nn_cache = [CacheInit EXCEPT !.budget = mib]
    /\ pipe = PipeDefaults(0)
    /\ pc = [t \in Threads |-> "idle"]
    /\ loc = [t \in Threads |-> NoLocals]
    /\ \E mib \in 0..MaxMiB : hist = [HistInit EXCEPT !.min_budget = mib]
    /\ hist.min_budget = nn_cache.budget

InitGather ==
    /\ state \in GatherInputs
    /\ state.symm_dup \subseteq state.legal
    /\ \A i \in state.symm_dup : \E j \in state.legal \ state.symm_dup : j < i
    /\ param \in ParamInputs
    /\ InitNode

\* ------------------------------------------------------------- next states
NextExpand ==
    \/ \E t \in Threads : ExpandChildren(t)
    \/ \E t \in Threads : SetTerminal(t)
    \/ \E t \in Threads : ProbSelectChild(t)
    \/ \E t \in Threads : PuctSelectChild(t)
    \/ \E t \in Threads : UctSelectChild(t)
    \/ \E t \in Threads : GumbelSelectChild(t)
    \/ \E t \in Threads : GetLcbUtilityList(t)
    \/ \E t \in Threads : GetBestMove(t)
    \/ PrepareRootNode
    \/ KillRootSuperkosCall
    \/ \E v \in 0..kPass : PopChild(v)

NextBackup == \E t \in Threads : Update(t)

NextStatus ==
    \/ \E t \in Threads : \E active \in BOOLEAN : SetActive_IsValid(t, active)
    \/ \E t \in Threads : SetActive_Store(t)
    \/ \E t \in Threads : Invalidate_IsValid(t)
    \/ \E t \in Threads : Invalidate_Store(t)

\* SetActive and Invalidate called one after another: a call is entered
\* only when no call is in progress
NextStatusSerial ==
    \/ \E t \in Threads : \E active \in BOOLEAN : Quiescent /\ SetActive_IsValid(t, active)
    \/ \E t \in Threads : SetActive_Store(t)
    \/ \E t \in Threads : Quiescent /\ Invalidate_IsValid(t)
    \/ \E t \in Threads : Invalidate_Store(t)

\* SetActive and Invalidate called by threads that do not wait for each other
SpecStatus == InitBase /\ [][NextStatus]_vars

\* The node under expansion, selection and the root operations
SpecExpand == Init /\ [][NextExpand]_vars

\* The node under concurrent Update calls
SpecBackup == InitBase /\ [][NextBackup]_vars

\* Concurrent Update calls, and SetVisits called while no Update is running
NextStats ==
    \/ \E t \in Threads : Update(t)
    \/ \E v \in 0..MaxSetVisits : Quiescent /\ SetVisits(v)

\* The node's statistics under Update and SetVisits
SpecStats == InitBase /\ [][NextStats]_vars

\* The node's status under calls made one after another
SpecStatusSerial == InitBase /\ [][NextStatusSerial]_vars

\* The candidate loop of one expansion
NextCandidates ==
    \/ \E t \in Threads : Quiescent /\ ExpandChildren_BeginCandidates(t)
    \/ \E t \in Threads : ExpandChildren_Candidate(t)
    \/ \E t \in Threads : ExpandChildren_PassRule(t)

\* The candidate loop over boards of every size
SpecCandidates == InitBoard /\ [][NextCandidates]_vars

\* One expansion, selections that inflate the children, the root operations
NextSuperko ==
    \/ \E t \in Threads : Quiescent /\ ExpandChildren(t)
    \/ \E t \in Threads : ~Quiescent /\ ExpandChildren(t)
    \/ \E t \in Threads : Quiescent /\ ProbSelectChild(t)
    \/ \E t \in Threads : ~Quiescent /\ ProbSelectChild(t)
    \/ PrepareRootNode
    \/ KillRootSuperkosCall

\* The root of a position with ko history
SpecSuperko == InitSuperko /\ [][NextSuperko]_vars

\* The children are pruned and restored, and the best move is asked for
NextBestMove ==
    \/ \E i \in DOMAIN children : \E active \in BOOLEAN : SetActiveChild(i, active)
    \/ GetBestMoveCall

\* The best move of a searched root
SpecBestMove == InitBestMove /\ [][NextBestMove]_vars

\* The playouts of a single-threaded search through this node
NextSearch ==
    \/ RootEvalCall
    \/ PuctSelectChildCall
    \/ BackupCall

\* Node::Invalidate called on the Node of an inflated child (lines 1106-1110)
InvalidateChild(i) ==
    /\ Quiescent
    /\ i \in DOMAIN children
    /\ children[i].inflated
    /\ children' = [children EXCEPT ![i].status = Invalidated(@)]
    /\ UNCHANGED <<state, pipe, param, nn_cache, expand_state, color, black_wl, avg_black_ownership,
                   status, statVars, score_bouns, popped, pc, loc, hist>>

\* A selector that passes over no child
SelectorChoices_All(op) == DOMAIN children

\* The children a selector can return.  ProbSelectChild, PuctSelectChild and
\* UctSelectChild skip every inflated child that is not Active (lines 355,
\* 429, 527) and take the best of the others, whose value depends on the
\* evaluations below them.  GumbelSelectChild gives every edge a logit
\* (lines 1516-1520), ProcessGumbelLogits passes over the inflated children
\* that are not Active without touching their logit (1478-1480) and masks
\* the Active ones that do not have the scheduled visits, and the final loop
\* (1541-1547) takes the greatest logit of all edges.
SelectorChoices(op) ==
    IF op = "GumbelSelectChild" THEN GumbelChoices(children, param) ELSE NotSkipped

\* A selector called by one thread: WaitExpanded, the loop, Inflate of the
\* best edge, return.  With no best edge Inflate dereferences nullptr, and
\* ProcessGumbelLogits dereferences the null Node of an uninflated edge
\* (line 1482): crashed.
SelectChildCall(op) ==
    /\ Quiescent
    /\ WaitExpandedBreaks
    /\ HaveChildren
    /\ LET choices == SelectorChoices(op)
           selectable == NotSkipped /= {}
           crashed == \/ choices = {}
                      \/ op = "GumbelSelectChild"
                            /\ \E i \in DOMAIN children : ~children[i].inflated
       IN  IF crashed
           THEN /\ hist' = [hist EXCEPT !.returned =
                                [called |-> TRUE, op |-> op, selectable |-> selectable,
                                 crashed |-> TRUE, vertex |-> 0, status |-> "Active"]]
                /\ UNCHANGED children
           ELSE \E i \in choices :
                   /\ children' = Inflate(children, i)
                   /\ hist' = [hist EXCEPT !.returned =
                                   [called |-> TRUE, op |-> op, selectable |-> selectable,
                                    crashed |-> FALSE, vertex |-> children[i].vertex,
                                    status |-> children[i].status]]
    /\ UNCHANGED <<state, pipe, param, nn_cache, expand_state, color, black_wl, avg_black_ownership,
                   status, statVars, score_bouns, popped, pc, loc>>

\* A searched node with three children, each uninflated or visited 0..2
\* times; Gumbel considers 2 or 4 moves
SelectStatInputs == {st \in ChildStatInputs : st.lcb = 0 /\ st.utility = 0 /\ ~st.expanding}

InitSelect ==
    /\ state = BaseState
    /\ param \in [first_pass_bonus : {TRUE}, gumbel : {TRUE}, gumbel_playouts : {25},
                   gumbel_considered_moves : {2, 4}]
    /\ expand_state = "Expanded"
    /\ color = state.to_move
    /\ children \in
           {<<SearchedEdge(0, 2, 4, a), SearchedEdge(1, 1, 4, b), SearchedEdge(kPass, 1, 4, c)>> :
               a \in SelectStatInputs, b \in SelectStatInputs, c \in SelectStatInputs}
    /\ black_wl = NetBlackWl(state)
    /\ status = NodeDefaults.status
    /\ visits = 1 + SumOver([i \in DOMAIN children |-> children[i].visits], DOMAIN children)
    /\ accumulated_black_wl = NodeDefaults.accumulated_black_wl
    /\ accumulated_draw = NodeDefaults.accumulated_draw
    /\ accumulated_black_fs = NodeDefaults.accumulated_black_fs
    /\ squared_eval_diff = NodeDefaults.squared_eval_diff
    /\ avg_black_ownership = NodeDefaults.avg_black_ownership
    /\ score_bouns = NodeDefaults.score_bouns
    /\ popped = [vertex |-> -1, score_bouns |-> 0, null |-> TRUE]
    /\ nn_cache = CacheInit
    /\ pipe = PipeDefaults(0)
    /\ pc = [t \in Threads |-> "idle"]
    /\ loc = [t \in Threads |-> NoLocals]
    /\ hist = HistInit

\* Children are pruned, restored and invalidated, and then a selector is
\* called
NextSelect ==
    \/ \E i \in DOMAIN children : \E active \in BOOLEAN :
           ~hist.returned.called /\ SetActiveChild(i, active)
    \/ \E i \in DOMAIN children : ~hist.returned.called /\ InvalidateChild(i)
    \/ \E op \in Selectors : ~hist.returned.called /\ SelectChildCall(op)

SpecSelect == InitSelect /\ [][NextSelect]_vars

\* A root with as many children as moves are considered, all inflated and
\* unvisited, searched with Gumbel for WalkEpochs epochs of the schedule
WalkConsideredMoves == {2, 4, 8, 16}

\* The children whose Gumbel sample can win a selection of the walk: of the
\* children the schedule leaves unmasked, the first WalkSampleBudget \div m
\* in the order of children_ (all of them for m = 2 and 4, two of them for
\* m = 8, one for m = 16)
WalkSamples ==
    LET S == GumbelChoices(children, param)
    IN  {i \in S : Cardinality({j \in S : j < i}) < WalkSampleBudget \div Len(children)}

WalkChildren(m) ==
    [i \in 1..m |-> [Edge(i - 1, 1, m) EXCEPT !.inflated = TRUE]]

InitWalk ==
    /\ state = BaseState
    /\ \E m \in WalkConsideredMoves :
          /\ param = [first_pass_bonus |-> TRUE, gumbel |-> TRUE,
                      gumbel_playouts |-> WalkEpochs * VisitsPerRound(m),
                      gumbel_considered_moves |-> m]
          /\ children = WalkChildren(m)
    /\ expand_state = "Expanded"
    /\ color = state.to_move
    /\ black_wl = NetBlackWl(state)
    /\ status = NodeDefaults.status
    /\ visits = NodeDefaults.visits
    /\ accumulated_black_wl = NodeDefaults.accumulated_black_wl
    /\ accumulated_draw = NodeDefaults.accumulated_draw
    /\ accumulated_black_fs = NodeDefaults.accumulated_black_fs
    /\ squared_eval_diff = NodeDefaults.squared_eval_diff
    /\ avg_black_ownership = NodeDefaults.avg_black_ownership
    /\ score_bouns = NodeDefaults.score_bouns
    /\ popped = [vertex |-> -1, score_bouns |-> 0, null |-> TRUE]
    /\ nn_cache = CacheInit
    /\ pipe = PipeDefaults(0)
    /\ pc = [t \in Threads |-> "idle"]
    /\ loc = [t \in Threads |-> NoLocals]
    /\ hist = HistInit

\* The single-threaded search while the root selects by Gumbel
NextWalk ==
    \/ RootEvalCall
    \/ /\ ShouldApplyGumbel(param, visits)
       /\ PuctSelectChildCall
       /\ hist'.last_sel.crashed \/ hist'.pending \in WalkSamples
    \/ BackupCall

SpecWalk == InitWalk /\ [][NextWalk]_vars

\* The best move of a searched root with the LCB weights reduced to nothing
SpecMostVisits == InitMostVisits /\ [][NextBestMove]_vars

\* A single-threaded search
SpecSearch == InitSearch /\ [][NextSearch]_vars

\* Concurrent requests for network outputs
NextSingleFlight == \E t \in Threads : GetOutput(t)

SpecSingleFlight == InitCache /\ [][NextSingleFlight]_vars

\* The cache under insertions, resizes and clears
NextCache ==
    \/ \E fp \in Fingerprints : \E result \in ResultInputs : CacheInsertCall(fp, result)
    \/ \E mib \in 0..MaxMiB : SetCacheSize(mib)
    \/ ClearCache

SpecCache == InitCache /\ [][NextCache]_vars

\* Threads select through, and ask for the children of, an expanded node
NextInflate ==
    \/ \E t \in Threads : WaitExpanded(t, "PuctSelectChild")
    \/ \E t \in Threads : SelectInflating(t, NotSkipped)
    \/ \E t \in Threads : \E v \in 0..kPass : GetChild_Find(t, v)
    \/ \E t \in Threads : InflateSteps(t)

\* The inflation of the edges of an expanded node
SpecInflate == InitInflate /\ [][NextInflate]_vars

\* A fresh node under Update calls that do not overlap
NextSerialBackup == SerialUpdateCall

\* ------------------------------------------ the sequential-halving epoch
\* ProcessGumbelLogits, lines 1440-1471, called with some root visits and
\* some number of considered moves
ProcessGumbelLogitsCall(root_visits, considered_moves) ==
    /\ hist' = [hist EXCEPT !.schedule =
                    [called |-> TRUE, root_visits |-> root_visits,
                     considered_moves |-> considered_moves,
                     visits_per_round |-> VisitsPerRound(considered_moves),
                     rounds |-> root_visits \div VisitsPerRound(considered_moves),
                     index |-> ScheduleIndex(root_visits, considered_moves),
                     considered_visists |-> ConsideredVisits(root_visits, considered_moves)]]
    /\ UNCHANGED <<state, pipe, param, nn_cache, nodeVars, status, statVars, score_bouns, popped,
                   pc, loc>>

NextSchedule ==
    \E root_visits \in 0..MaxRootVisits : \E considered_moves \in 1..MaxConsideredMoves :
        ProcessGumbelLogitsCall(root_visits, considered_moves)

SpecSchedule == InitBase /\ [][NextSchedule]_vars

\* ------------------------------------------------- the t-quantile table
kEntrySize == 1000

\* LcbEntries::Initialize: z_lookup_table_[i] = NormToTApprox(z, i) for
\* 0 <= i < kEntrySize; an entry is written as the degrees of freedom it
\* was computed for
z_lookup_table == [i \in 0..(kEntrySize - 1) |-> [degrees_of_freedom |-> i]]

\* A lookup that reads the entry of its argument
TableIndex_OfArgument(v) ==
    IF v < 1 THEN 0
    ELSE IF v < kEntrySize THEN v
    ELSE kEntrySize - 1

\* LcbEntries::CachedTQuantile: the index of the entry it reads
TableIndex(v) ==
    IF v < 1 THEN 0
    ELSE IF v < kEntrySize THEN v - 1
    ELSE kEntrySize - 1

\* LcbEntries::CachedTQuantile called with any integer; one call is followed
CachedTQuantileCall(v) ==
    /\ ~hist.tq.called
    /\ hist' = [hist EXCEPT !.tq = [called |-> TRUE, from_lcb |-> FALSE, v |-> v,
                                     reads |-> {TableIndex(v)},
                                     z |-> z_lookup_table[TableIndex(v)].degrees_of_freedom]]
    /\ UNCHANGED <<state, pipe, param, nn_cache, nodeVars, status, statVars, score_bouns, popped,
                   pc, loc>>

\* Node::GetLcb, lines 678-690: with at most one visit the table is not
\* read, otherwise z = CachedTQuantile(visits - 1)
GetLcbCall ==
    /\ ~hist.tq.called
    /\ hist' = [hist EXCEPT !.tq =
                    IF visits <= 1
                    THEN [called |-> TRUE, from_lcb |-> TRUE, v |-> 0, reads |-> {}, z |-> 0]
                    ELSE [called |-> TRUE, from_lcb |-> TRUE, v |-> visits - 1,
                          reads |-> {TableIndex(visits - 1)},
                          z |-> z_lookup_table[TableIndex(visits - 1)].degrees_of_freedom]]
    /\ UNCHANGED <<state, pipe, param, nn_cache, nodeVars, status, statVars, score_bouns, popped,
                   pc, loc>>

\* Nodes with few visits and with visits around the size of the table
LcbVisitInputs == (0..4) \cup ((kEntrySize - 2)..MaxLcbVisits)
TQuantileArgInputs == (0 - 3)..MaxLcbVisits

InitLcb ==
    /\ state = BaseState
    /\ param \in ParamInputs
    /\ expand_state = NodeDefaults.expand_state
    /\ color = NodeDefaults.color
    /\ children = NodeDefaults.children
    /\ black_wl = NodeDefaults.black_wl
    /\ status = NodeDefaults.status
    /\ visits \in LcbVisitInputs
    /\ accumulated_black_wl = NodeDefaults.accumulated_black_wl
    /\ accumulated_draw = NodeDefaults.accumulated_draw
    /\ accumulated_black_fs = NodeDefaults.accumulated_black_fs
    /\ squared_eval_diff = NodeDefaults.squared_eval_diff
    /\ avg_black_ownership = NodeDefaults.avg_black_ownership
    /\ score_bouns = NodeDefaults.score_bouns
    /\ popped = [vertex |-> -1, score_bouns |-> 0, null |-> TRUE]
    /\ nn_cache = CacheInit
    /\ pipe = PipeDefaults(0)
    /\ pc = [t \in Threads |-> "idle"]
    /\ loc = [t \in Threads |-> NoLocals]
    /\ hist = HistInit

NextLcb ==
    \/ GetLcbCall
    \/ \E v \in TQuantileArgInputs : CachedTQuantileCall(v)

SpecLcb == InitLcb /\ [][NextLcb]_vars

\* ------------------------------------------------------------ virtual loss
VIRTUAL_LOSS_COUNT == 3

\* Node::IncrementThreads, Node::DecrementThreads: running_threads_ is
\* changed by atomic fetch_add(1) and fetch_sub(1); a selection path
\* increments on entering the node and decrements after its backup, so the
\* counter is the number of threads that are between the two calls
IncrementThreads(t) ==
    /\ pc[t] = "idle"
    /\ pc' = [pc EXCEPT ![t] = "in_subtree"]
    /\ UNCHANGED <<state, pipe, param, nn_cache, nodeVars, status, statVars, score_bouns, popped,
                   loc, hist>>

DecrementThreads(t) ==
    /\ pc[t] = "in_subtree"
    /\ pc' = [pc EXCEPT ![t] = "idle"]
    /\ UNCHANGED <<state, pipe, param, nn_cache, nodeVars, status, statVars, score_bouns, popped,
                   loc, hist>>

running_threads == Cardinality({t \in Threads : pc[t] = "in_subtree"})

\* Node::GetVirtualLoss
GetVirtualLoss == VIRTUAL_LOSS_COUNT * running_threads

\* 0.0 / 0: not a number
NaN == [n |-> 0, d |-> 0]

\* A reading that punishes Black's accumulator for neither colour
GetWL_NoWhitePunish(c, use_virtual_loss) ==
    LET virtual_loss == IF use_virtual_loss THEN GetVirtualLoss ELSE 0
        v == visits + virtual_loss
        eval == IF v = 0 THEN NaN ELSE Frac(accumulated_black_wl, EvalUnit * v)
    IN  IF v = 0 THEN NaN
        ELSE IF c = kBlack THEN eval ELSE FSub(FInt(1), eval)

\* Node::GetWL, lines 1041-1061; the accumulator is in units of 1/EvalUnit
GetWL(c, use_virtual_loss) ==
    LET virtual_loss == IF use_virtual_loss THEN GetVirtualLoss ELSE 0
        v == visits + virtual_loss
        accumulated_wl ==
            IF c = kWhite /\ use_virtual_loss
            THEN accumulated_black_wl + EvalUnit * virtual_loss
            ELSE accumulated_black_wl
        eval == IF v = 0 THEN NaN ELSE Frac(accumulated_wl, EvalUnit * v)
    IN  IF v = 0 THEN NaN
        ELSE IF c = kBlack THEN eval ELSE FSub(FInt(1), eval)

\* A reader calls GetWL
GetWLCall(c, use_virtual_loss) ==
    /\ hist' = [hist EXCEPT !.wl = [called |-> TRUE, color |-> c,
                                     use_virtual_loss |-> use_virtual_loss,
                                     value |-> GetWL(c, use_virtual_loss)]]
    /\ UNCHANGED <<state, pipe, param, nn_cache, nodeVars, status, statVars, score_bouns, popped,
                   pc, loc>>

\* A node that is backed up while no thread is below it, entered and left by
\* selecting threads, and read with and without virtual loss
NextVirtualLoss ==
    \/ SerialUpdateCall
    \/ \E t \in Threads : IncrementThreads(t)
    \/ \E t \in Threads : DecrementThreads(t)
    \/ \E c \in {kBlack, kWhite} : \E use_virtual_loss \in BOOLEAN :
           GetWLCall(c, use_virtual_loss)

SpecVirtualLoss == InitBase /\ [][NextVirtualLoss]_vars

SpecSerialBackup == InitBase /\ [][NextSerialBackup]_vars

\* The node is expanded and selected through, one call at a time, its
\* children are pruned and restored; the root is prepared, a child is
\* extracted and prepared as the next root
NextRoot ==
    \/ \E t \in Threads : Quiescent /\ ExpandChildren(t)
    \/ \E t \in Threads : ~Quiescent /\ ExpandChildren(t)
    \/ \E t \in Threads : Quiescent /\ ProbSelectChild(t)
    \/ \E t \in Threads : ~Quiescent /\ ProbSelectChild(t)
    \/ \E i \in DOMAIN children : \E active \in BOOLEAN :
           popped.null /\ SetActiveChild(i, active)
    \/ PrepareRootNode
    \/ \E v \in 0..kPass : PopChildCall(v)
    \/ PrepareRootNode_NewRoot

\* The root between searches
SpecRoot == InitRoot /\ [][NextRoot]_vars

\* Threads call ExpandChildren and SetTerminal on one node
NextRefuse ==
    \/ \E t \in Threads : \E ndebug \in BOOLEAN : ExpandChildren_Enter(t, ndebug)
    \/ \E t \in Threads : ExpandChildren_Acquire(t)
    \/ \E t \in Threads : ExpandChildren_SetColor(t)
    \/ \E t \in Threads : ExpandChildren_GetOutput(t)
    \/ \E t \in Threads : ExpandChildren_ApplyNetOutput(t)
    \/ \E t \in Threads : ExpandChildren_Link(t)
    \/ \E t \in Threads : ExpandChildren_Done(t)
    \/ \E t \in Threads : SetTerminal(t)

\* The expansion of a node on boards with and without passes
SpecRefuse == InitPasses /\ [][NextRefuse]_vars

\* Threads expand the node and wait for its expansion
NextWait ==
    \/ \E t \in Threads : ExpandChildren(t)
    \/ \E t \in Threads : WaitExpanded_Enter(t)
    \/ \E t \in Threads : WaitExpanded_Load(t)

\* What a thread that is inside a call does next: the scheduler runs every
\* such thread again and again
Continue(t) ==
    \/ ExpandChildren_Acquire(t)
    \/ ExpandChildren_SetColor(t)
    \/ ExpandChildren_GetOutput(t)
    \/ ExpandChildren_ApplyNetOutput(t)
    \/ ExpandChildren_Link(t)
    \/ ExpandChildren_Done(t)
    \/ WaitExpanded_Load(t)

\* Expansion and waiting under a fair scheduler
SpecWaitFair == InitWait /\ [][NextWait]_vars /\ \A t \in Threads : WF_vars(Continue(t))

\* One expansion at a time, then the root operations
NextGather ==
    \/ \E t \in Threads : Quiescent /\ ExpandChildren_HaveChildren(t)
    \/ \E t \in Threads : ExpandChildren_Acquire(t)
    \/ \E t \in Threads : ExpandChildren_SetColor(t)
    \/ \E t \in Threads : ExpandChildren_GetOutput(t)
    \/ \E t \in Threads : ExpandChildren_ApplyNetOutput(t)
    \/ \E t \in Threads : ExpandChildren_Link(t)
    \/ \E t \in Threads : ExpandChildren_Done(t)
    \/ PrepareRootNode
    \/ KillRootSuperkosCall
    \/ \E v \in 0..kPass : PopChild(v)

\* The expansion over every board and network output
SpecGather == InitGather /\ [][NextGather]_vars

\* ------------------------------------------------------------------ claims
HolderPcs == {"ec_color", "ec_eval", "ec_apply", "ec_link", "ec_done", "st_color", "st_done"}
UpdatePcs == {"up_visits", "up_fadd", "up_sq", "up_wl", "up_draw", "up_fs", "up_own"}
Published(ch) == [i \in DOMAIN ch |->
                     [pnum |-> ch[i].pnum, pden |-> ch[i].pden, vertex |-> ch[i].vertex]]

\* C1: among any number of concurrent ExpandChildren calls on the node at
\* most one returns true, and the step in which a call loses the race for
\* the expansion (its failed compare-and-swap) changes neither the children
\* nor expand_state nor the colour.
C1_ExpandAtMostOnce ==
    /\ [](hist.expand_true <= 1)
    /\ [][\A t \in Threads :
            (pc[t] = "ec_acquire" /\ pc'[t] = "idle")
                => (children' = children /\ expand_state' = expand_state /\ color' = color)]_vars

\* C1 witness: one call has returned true and another has lost the race
C1_Witness == hist.expand_true = 1 /\ hist.cas_lost

\* C2: when every Update call that was entered has returned, visits is the
\* number of calls and each accumulator is the sum of the calls' values.
C2_NoLostUpdate ==
    (\A t \in Threads : pc[t] \notin UpdatePcs) =>
        /\ visits = hist.updates_done
        /\ accumulated_black_wl = hist.sum_wl
        /\ accumulated_draw = hist.sum_draw
        /\ accumulated_black_fs = hist.sum_fs

\* C2 witness: two Update calls have returned and none is in progress
C2_Witness ==
    /\ \A t \in Threads : pc[t] \notin UpdatePcs
    /\ hist.updates_done >= 2
    /\ accumulated_black_wl > 0

\* C3: a selector, GetLcbUtilityList or GetBestMove that is past its
\* WaitExpanded and at the node's edges finds the node Expanded.
C3_ReadersSeeExpanded ==
    \A t \in Threads : pc[t] = "rd_scan" => expand_state = "Expanded"

\* C3 witness: a selector is at the edges of an expanded node
C3_Witness ==
    \E t \in Threads : pc[t] = "rd_scan" /\ loc[t].op \in Selectors /\ children /= <<>>

C5_LengthNeverChanges ==
    [][expand_state = "Expanded" => Len(children') = Len(children)]_vars

\* C5 as amended: once the node is Expanded the children list never grows,
\* and it shrinks only in a root operation: by the superko children that
\* KillRootSuperkos (also inside PrepareRootNode) removes, or by the one edge
\* that PopChild hands out.
C5_LengthOnlyShrinksAtRoot ==
    [][expand_state = "Expanded" =>
          LET gone == VerticesOf(children) \ VerticesOf(children')
          IN  \/ Len(children') = Len(children)
              \/ /\ Len(children') < Len(children)
                 /\ Quiescent
                 /\ Len(children) - Len(children') = Cardinality(gone)
                 /\ \/ \A v \in gone : v /= kPass /\ IsSuperko(PlayMove(state, v))
                    \/ gone = {popped'.vertex} /\ popped.null /\ ~popped'.null]_vars

\* C5 witness: an expanded node has lost a child
C5_Witness == expand_state = "Expanded" /\ HaveChildren /\ hist.removed /= {}

\* C6: after an evaluator failure inside ExpandChildren, once no call holds
\* the expansion the node is not left Expanding.
C6_FailureCancels ==
    (hist.evaluator_failed /\ \A t \in Threads : pc[t] \notin HolderPcs)
        => expand_state /= "Expanding"

\* C7: in no state is visits non-zero while an accumulator has had no
\* contribution added.
C7_VisitsImplyContribution ==
    visits > 0 => (hist.wl_adds >= 1 /\ hist.draw_adds >= 1 /\ hist.fs_adds >= 1)

\* C8 as claimed: visits never decreases.
C8_VisitsNeverDecrease == [][visits' >= visits]_vars

\* C8 as amended: visits is 0 at creation and no step of Update lowers it;
\* SetVisits(v) stores v whatever visits was, so it can lower it.
C8_VisitsMonotoneButSetVisits ==
    /\ visits = 0
    /\ [][IF hist'.visits_set /= hist.visits_set
          THEN visits' \in 0..MaxSetVisits
          ELSE visits' >= visits /\ visits' <= visits + 1]_vars

\* C8 witness: Update calls have counted and SetVisits has then set the
\* count below them
C8_Witness == hist.visits_set /\ hist.updates_done >= 1 /\ visits < hist.updates_done

\* C9 as claimed: in every state, between the steps of concurrent Update
\* calls too, |accumulated_black_wl| <= visits and |accumulated_draw| <=
\* visits (the accumulators are in halves).
C9_AccumulatedWithinVisits ==
    /\ Abs(accumulated_black_wl) <= EvalUnit * visits
    /\ Abs(accumulated_draw) <= EvalUnit * visits

\* C9 as amended: the two bounds hold in every state, between the steps of
\* concurrent Update calls too, as long as only Update has written the
\* statistics, that is until SetVisits is called.
C9_AccumulatedWithinVisitsUnderUpdate ==
    ~hist.visits_set => C9_AccumulatedWithinVisits

\* C9 witness: two calls overlap, one between its visit count and its
\* accumulators, and the win-rate accumulator is not zero
C9_Witness ==
    /\ ~hist.visits_set
    /\ \E t \in Threads : pc[t] \in {"up_sq", "up_wl"}
    /\ \E t \in Threads : pc[t] = "up_draw"
    /\ visits = 2
    /\ accumulated_black_wl > 0

\* C10: with calls made one after another, SetActive(false) leaves a valid
\* node Pruned, SetActive(true) leaves it Active, Invalidate leaves it
\* Invalid, nothing else changes the status, and an Invalid node stays
\* Invalid.
C10_StatusTransitions ==
    [][/\ status = "Invalid" => status' = "Invalid"
       /\ \A t \in Threads :
            (pc[t] = "sa_store" /\ pc'[t] = "idle") =>
                status' = IF status = "Invalid" THEN "Invalid"
                          ELSE IF loc[t].active THEN "Active" ELSE "Pruned"
       /\ \A t \in Threads :
            (pc[t] = "inv_store" /\ pc'[t] = "idle") => status' = "Invalid"
       /\ status' /= status => \E t \in Threads : pc[t] \in {"sa_store", "inv_store"}]_vars

\* C10 witness: SetActive is running on an Invalid node
C10_Witness ==
    status = "Invalid" /\ \E t \in Threads : pc[t] = "sa_store" /\ loc[t].active
\* The sum of the children's policy numerators (they share the denominator)
RECURSIVE SumPnum(_)
SumPnum(ch) == IF ch = <<>> THEN 0 ELSE Head(ch).pnum + SumPnum(Tail(ch))

\* A successful ExpandChildren has returned and no child has been removed
FreshlyExpanded ==
    expand_state = "Expanded" /\ HaveChildren /\ hist.removed = {} /\ children /= <<>>

\* C11 as claimed: after a successful ExpandChildren the children's
\* policies sum to 1.
C11_PoliciesSumToOne ==
    FreshlyExpanded => SumPnum(children) = children[1].pden

\* C11 as amended: after a successful ExpandChildren the children's policies
\* sum to 1 less the share of the candidates that symmetry pruning dropped:
\* to 1 when nothing was dropped or only zero-policy moves were, and in the
\* uniform fallback.
C11_PoliciesSumToOneLessPruned ==
    FreshlyExpanded =>
        /\ SumPnum(children) + SumOver(state.probabilities, state.symm_dup) = children[1].pden
        /\ \A i \in DOMAIN children : children[i].pden = children[1].pden /\ children[i].pden > 0

\* C11 witness: expanded with a candidate of non-zero policy dropped by
\* symmetry pruning
C11_Witness ==
    FreshlyExpanded /\ SumOver(state.probabilities, state.symm_dup) > 0 /\ Len(children) >= 2

\* C12: after ExpandChildren, and after any KillRootSuperkos or PopChild,
\* each child's policy is at least the next child's.
C12_ChildrenSortedByPolicy ==
    (expand_state = "Expanded" /\ HaveChildren) =>
        \A i \in 1..(Len(children) - 1) :
            children[i].pnum * children[i + 1].pden >= children[i + 1].pnum * children[i].pden

\* C12 witness: after a removal, children with different policies remain
C12_Witness ==
    /\ expand_state = "Expanded" /\ hist.removed /= {} /\ Len(children) >= 2
    /\ children[1].pnum > children[Len(children)].pnum

\* C13: with c candidates after pruning, c > 3N/4 gives no pass child,
\* anything else, c = 0 included, exactly one; the list is never empty.
C13_PassRule ==
    FreshlyExpanded =>
        LET c == Len(Candidates(state, 0))
            passes == Cardinality({i \in DOMAIN children : children[i].vertex = kPass})
        IN  /\ Len(children) - passes = c
            /\ c > (3 * NumIntersections) \div 4 => passes = 0
            /\ c <= (3 * NumIntersections) \div 4 => passes = 1
            /\ c = 0 => passes = 1
            /\ Len(children) >= 1

\* C13 witness: the number of candidates is just at 3N/4 and the pass is there
C13_Witness ==
    /\ FreshlyExpanded
    /\ Len(Candidates(state, 0)) = (3 * NumIntersections) \div 4
    /\ \E i \in DOMAIN children : children[i].vertex = kPass
\* The classes of the points of a board of side b under the eight symmetries
OrbitCount(b) ==
    LET h == (b + 1) \div 2
    IN  IF b % 2 = 1 THEN (h * (h + 1)) \div 2 ELSE ((b \div 2) * (b \div 2 + 1)) \div 2

\* The loop has ended on an empty board with symmetry pruning applied
EmptyBoardListed(t) ==
    /\ pc[t] = "ec_listed"
    /\ state.stones = {}
    /\ ApplySymmPruning(state, param)

KoHashRepeats(st, v) ==
    \E j \in DOMAIN st.ko_hash_history : st.ko_hash_history[j] = st.move_ko_hash[v]

\* C15: a step of KillRootSuperkos (on its own or in PrepareRootNode) on an
\* expanded root with all children inflated removes exactly the non-pass
\* children whose move repeats a ko hash of the history: with k of them the
\* list gets shorter by k, the others stay in order, the pass stays, and no
\* child at a superko vertex remains.
C15_KillRemovesExactlySuperkos ==
    [][(/\ Quiescent /\ \A t \in Threads : pc'[t] = "idle"
        /\ expand_state = "Expanded" /\ HaveChildren
        /\ \A i \in DOMAIN children : children[i].inflated
        /\ popped' = popped)
       => LET K == {i \in DOMAIN children :
                       children[i].vertex /= kPass /\ KoHashRepeats(state, children[i].vertex)}
              kept == {children[i].vertex : i \in DOMAIN children \ K}
          IN  /\ Len(children') = Len(children) - Cardinality(K)
              /\ Published(children') = SelectSeq(Published(children), LAMBDA e : e.vertex \in kept)
              /\ kPass \in VerticesOf(children) => kPass \in VerticesOf(children')
              /\ \A i \in DOMAIN children' : children'[i].vertex = kPass
                                                \/ ~KoHashRepeats(state, children'[i].vertex)]_vars

\* C15 witness: KillRootSuperkos has removed a superko child and left
\* another child and the pass
C15_Witness ==
    /\ expand_state = "Expanded" /\ hist.removed /= {} /\ Len(children) >= 2
    /\ kPass \in VerticesOf(children)
    /\ \A v \in hist.removed : KoHashRepeats(state, v)
\* C16: GetBestMove on an expanded node with children returns the vertex of
\* greatest ulcb among the Active children with visits > 0; when there is
\* none it returns the vertex of the highest-prior child that is Active or
\* uninflated; it never returns kNullVertex.
C16_BestMoveByLcbOrPrior ==
    [][(~hist.best_move.called /\ hist'.best_move.called)
       => LET v == hist'.best_move.vertex
              listed == LcbListed(children)
              eligible == {i \in DOMAIN children :
                              ~children[i].inflated \/ children[i].status = "Active"}
          IN  /\ ~hist'.best_move.crashed
              /\ v /= kNullVertex
              /\ v \in VerticesOf(children)
              /\ IF listed /= {}
                 THEN \E i \in listed :
                         /\ children[i].vertex = v
                         /\ \A j \in listed : ~FLess(Ulcb(children, i, param), Ulcb(children, j, param))
                 ELSE \E i \in eligible :
                         /\ children[i].vertex = v
                         /\ \A j \in eligible : ~FLess(FPolicy(children[i]), FPolicy(children[j]))]_vars

\* C16, where a child can be selected: with a listed child the result is the
\* vertex of greatest ulcb; without one, and with a child that is Active or
\* uninflated, it is the vertex of such a child of the greatest prior among
\* those that are not expanding, if there is one
C16_BestMoveWhenSelectable ==
    [][(/\ ~hist.best_move.called /\ hist'.best_move.called
        /\ \E i \in DOMAIN children : ~Skipped(children[i]))
       => LET v == hist'.best_move.vertex
              listed == LcbListed(children)
              eligible == {i \in DOMAIN children : ~Skipped(children[i])}
              calm == {i \in eligible : ~(children[i].inflated /\ children[i].expanding)}
              pool == IF calm = {} THEN eligible ELSE calm
          IN  /\ ~hist'.best_move.crashed
              /\ v \in VerticesOf(children)
              /\ IF listed /= {}
                 THEN \E i \in listed :
                         /\ children[i].vertex = v
                         /\ \A j \in listed : ~FLess(Ulcb(children, i, param), Ulcb(children, j, param))
                 ELSE \E i \in pool :
                         /\ children[i].vertex = v
                         /\ \A j \in pool : ~FLess(FPolicy(children[i]), FPolicy(children[j]))]_vars

\* C16 witness: GetBestMove was called with every child inflated and pruned
C16_Witness ==
    /\ hist.best_move.crashed
    /\ \A i \in DOMAIN children : children[i].inflated /\ children[i].status = "Pruned"
C18_GumbelPicksWithinConsidered ==
    [][(/\ hist'.gumbel_count > hist.gumbel_count
        /\ param.gumbel_considered_moves \in {Pow2(k) : k \in 0..Log2Floor(Len(children))}
        /\ Len(children) >= param.gumbel_considered_moves)
       => /\ ~hist'.last_sel.crashed
          /\ IF hist.gumbel_count < param.gumbel_considered_moves
             THEN hist'.last_sel.was_unvisited /\ ~hist'.last_sel.was_picked
             ELSE hist'.last_sel.was_picked
          /\ Cardinality(hist'.gumbel_picks) <= param.gumbel_considered_moves]_vars

\* C18 witness: with 4 considered moves, four Gumbel selections picked four
\* children and two more fell on children among those four
C18_Witness ==
    /\ param.gumbel_considered_moves = 4 /\ Len(children) > 4
    /\ hist.gumbel_count = 6 /\ hist.last_sel.gumbel /\ hist.last_sel.was_picked
    /\ Cardinality(hist.gumbel_picks) = 4
    /\ hist.pending = 0
C21_InflateOnce ==
    /\ [](\A v \in 0..kPass : hist.allocated[v] <= 1)
    /\ [](\A t \in Threads :
             pc[t] \in {"inf_param", "inf_get"} =>
                 /\ children[loc[t].idx].inflated
                 /\ children[loc[t].idx].node \in Threads)
    /\ [][\A i \in DOMAIN children :
             children[i].inflated =>
                 /\ i \in DOMAIN children'
                 /\ children'[i].inflated
                 /\ children'[i].node = children[i].node]_vars

\* C21 witness: a selector and GetChild raced on one edge; both are back
\* from Inflate with the edge's one Node, which a third party or one of
\* them allocated after the other had entered
C21_Witness ==
    \E a, b \in Threads :
        /\ a /= b
        /\ loc[a].idx = loc[b].idx
        /\ loc[a].op = "PuctSelectChild" /\ loc[b].op = "GetChild"
        /\ pc[a] = "inf_param" /\ pc[b] = "inf_get"
        /\ hist.allocated[children[loc[a].idx].vertex] = 1

\* The sum of the win rates in s (in halves), and the sum over s of the
\* squared distance of a win rate from mean
RECURSIVE SumSeq(_)
SumSeq(s) == IF s = <<>> THEN 0 ELSE Head(s) + SumSeq(Tail(s))
RECURSIVE SumSquaredDiff(_, _)
SumSquaredDiff(s, mean) ==
    IF s = <<>> THEN FInt(0)
    ELSE LET d == FSub(Frac(Head(s), EvalUnit), mean)
         IN  FAdd(FMul(d, d), SumSquaredDiff(Tail(s), mean))

\* C22: after K Update calls made one after another on a fresh node with the
\* win rates v1..vK, visits is K and squared_eval_diff is the sum of the
\* (vi - mean)^2, mean being the arithmetic mean of v1..vK.
C22_WelfordSum ==
    LET K == Len(hist.values)
    IN  /\ visits = K
        /\ K > 0 =>
               squared_eval_diff =
                   SumSquaredDiff(hist.values, Frac(SumSeq(hist.values), EvalUnit * K))

\* C22 witness: MaxSerialUpdates updates with three different win rates
C22_Witness ==
    /\ Len(hist.values) = MaxSerialUpdates
    /\ {hist.values[i] : i \in DOMAIN hist.values} = {0, 1, EvalUnit}
    /\ squared_eval_diff /= FInt(0)

\* What a PopChild(v) step does to the children and hands out, leaving the
\* score bonus of the Node aside
PopChildFrame(v) ==
    LET i == ChildIndex(children, v)
    IN  IF i /= 0
        THEN /\ ~popped'.null
             /\ popped'.vertex = v
             /\ Len(children') = Len(children) - 1
             /\ \A k \in 1..(i - 1) : children'[k] = children[k]
             /\ \A k \in i..Len(children') : children'[k] = children[k + 1]
        ELSE /\ popped'.null
             /\ children' = children

\* C23 as stated: PopChild(v) on a node with a child at v removes exactly
\* that edge and returns its Node with the score bonus reset to 0; with no
\* child at v it returns null and leaves the children unchanged.
C23_PopChildResetsBonus ==
    [][hist'.last_pop /= hist.last_pop =>
          /\ PopChildFrame(hist'.last_pop.vertex)
          /\ ~popped'.null => popped'.score_bouns = 0]_vars

\* C23: PopChild(v) on a node with a child at v removes exactly that edge
\* and returns its Node, whose score bonus is the one the child had; the
\* bonus is 0 once PrepareRootNode has run on that Node as the new root.
\* With no child at v PopChild returns null and leaves the children unchanged.
C23_PopChildThenPrepareResetsBonus ==
    /\ [][hist'.last_pop /= hist.last_pop =>
             /\ PopChildFrame(hist'.last_pop.vertex)
             /\ ~popped'.null =>
                    popped'.score_bouns =
                        children[ChildIndex(children, hist'.last_pop.vertex)].score_bouns]_vars
    /\ [](hist.new_root_prepared => ~popped.null /\ popped.score_bouns = 0)

\* C23 witness: a PopChild that found nothing, then one that extracted the
\* pass child with its half point of bonus from among other children, and
\* PrepareRootNode on the extracted Node
C23_Witness ==
    /\ hist.last_pop.calls = 2
    /\ popped.vertex = kPass
    /\ hist.new_root_prepared
    /\ param.first_pass_bonus
    /\ Len(children) >= 2

\* An ExpandChildren call comes back with false in this step
ExpandRefused ==
    \/ hist'.expand_false /= hist.expand_false
    \/ hist'.cas_lost /= hist.cas_lost

\* C24 as stated: ExpandChildren returns false and leaves expand_state, color
\* and children unchanged when the node is already expanded, and also when
\* the board has two consecutive passes (so that on such a board no call
\* touches the node or ends the program).
C24_RefusesExpandedAndTwoPasses ==
    /\ [][ExpandRefused => UNCHANGED <<expand_state, color, children>>]_vars
    /\ [](state.passes >= 2 =>
             /\ expand_state = "Initial" /\ color = kInvalid /\ children = <<>>
             /\ \A t \in Threads : pc[t] \in {"idle", "st_color", "st_done"})

\* C24: an ExpandChildren call returns false only on a node that is expanded
\* or being expanded, and then leaves expand_state, color and children
\* unchanged; two consecutive passes on the board make no call return false:
\* only on such a board can a call end the program (failed assertion).
C24_RefusesOnlyExpanded ==
    /\ [][ExpandRefused =>
             /\ UNCHANGED <<expand_state, color, children>>
             /\ expand_state /= "Initial"]_vars
    /\ [](\A t \in Threads : pc[t] = "aborted" => state.passes >= 2)

\* C24 witness: on a board with two consecutive passes the node has been
\* expanded by one call, and a later call has found it expanded and
\* returned false
C24_Witness ==
    /\ state.passes >= 2
    /\ hist.expand_true = 1
    /\ children /= <<>>
    /\ hist.expand_false >= 1

\* C25 as stated: under fair scheduling, once a thread has acquired the
\* expansion of the node, every thread spinning in WaitExpanded eventually
\* returns (the node becomes Expanded).
C25_WaitersEventuallyReturn ==
    \A t \in Threads :
        (pc[t] = "we_spin" /\ expand_state = "Expanding")
            ~> (pc[t] = "idle" /\ expand_state = "Expanded")

\* C25, as far as it holds: under fair scheduling a thread spinning in
\* WaitExpanded on a node whose expansion has been acquired eventually
\* returns, unless the evaluator call of the expansion fails.
C25_WaitersReturnUnlessEvaluatorFails ==
    \A t \in Threads :
        (pc[t] = "we_spin" /\ expand_state = "Expanding")
            ~> (\/ pc[t] = "idle" /\ expand_state = "Expanded"
                \/ hist.evaluator_failed)

\* C25 witness: a thread is spinning in WaitExpanded on a node left in
\* Expanding by an expansion whose evaluator call failed; no thread is
\* inside ExpandChildren any more
C25_Witness ==
    /\ expand_state = "Expanding"
    /\ hist.evaluator_failed
    /\ \E t \in Threads : pc[t] = "we_spin"
    /\ \A t \in Threads : pc[t] \in {"idle", "we_spin"}

\* C26: when PrepareRootNode returns, every child the root still has is
\* inflated and not Invalid, the root's own score bonus is 0, the pass child
\* has a score bonus of half a point exactly when first_pass_bonus is set,
\* and every other child has a score bonus of 0.
C26_PreparedRoot ==
    [][hist'.root_prepared /= hist.root_prepared =>
          /\ score_bouns' = 0
          /\ \A i \in DOMAIN children' :
                 /\ children'[i].inflated
                 /\ children'[i].status /= "Invalid"
                 /\ children'[i].score_bouns =
                        IF children'[i].vertex = kPass /\ param.first_pass_bonus
                        THEN 1 ELSE 0]_vars

\* C26 witness: PrepareRootNode has returned on a root that came with a
\* bonus of its own, with first_pass_bonus off; it removed a superko child
\* and left a pruned child and the pass child
C26_Witness ==
    /\ hist.root_prepared
    /\ ~param.first_pass_bonus
    /\ hist.removed /= {}
    /\ \E i \in DOMAIN children : children[i].vertex = kPass
    /\ \E i \in DOMAIN children : children[i].status = "Pruned"
    /\ popped.null
    /\ hist.last_pop.calls = 0

\* C27: with lcb_reduction 1, a GetBestMove that returns returns the vertex
\* of an Active child that has the most visits among the Active children,
\* whatever the lower confidence bounds and score utilities are.
C27_MostVisitsWithFullReduction ==
    [][(~hist.best_move.called /\ hist'.best_move.called /\ ~hist'.best_move.crashed
            /\ param.lcb_reduction >= EvalUnit)
       => \E i \in DOMAIN children' :
             /\ children'[i].vertex = hist'.best_move.vertex
             /\ children'[i].inflated /\ children'[i].status = "Active"
             /\ \A j \in DOMAIN children' :
                    children'[j].inflated /\ children'[j].status = "Active"
                        => children'[j].visits <= children'[i].visits]_vars

\* C27 witness: lcb_reduction is exactly 1 and GetBestMove returned the child
\* of three visits although an Active child of two visits has the greater
\* lower confidence bound and score utility
C27_Witness ==
    /\ param.lcb_reduction = EvalUnit
    /\ param.lcb_utility_factor = 1
    /\ hist.best_move.called /\ ~hist.best_move.crashed
    /\ \E i, j \in DOMAIN children :
           /\ children[i].vertex = hist.best_move.vertex
           /\ children[i].visits = 3 /\ children[j].visits = 2
           /\ children[j].inflated /\ children[j].status = "Active"
           /\ children[j].lcb > children[i].lcb
           /\ children[j].utility > children[i].utility

\* C28: for a node with visits > 0 and 0 <= accumulated_black_wl <= visits
\* and t running threads, GetWL with virtual loss divides by visits + 3t and,
\* for White only, adds 3t to Black's accumulator; for both colours it is at
\* most GetWL without virtual loss, and equal to it when t = 0.
VirtualLossPessimistic ==
    (visits > 0 /\ 0 <= accumulated_black_wl /\ accumulated_black_wl <= EvalUnit * visits)
    => LET t == running_threads
       IN  /\ GetWL(kBlack, TRUE) = Frac(accumulated_black_wl, EvalUnit * (visits + 3 * t))
           /\ GetWL(kWhite, TRUE) =
                  FSub(FInt(1), Frac(accumulated_black_wl + EvalUnit * 3 * t,
                                     EvalUnit * (visits + 3 * t)))
           /\ \A c \in {kBlack, kWhite} :
                  /\ ~FLess(GetWL(c, FALSE), GetWL(c, TRUE))
                  /\ t = 0 => GetWL(c, TRUE) = GetWL(c, FALSE)

C28_VirtualLossPessimistic ==
    /\ []VirtualLossPessimistic
    /\ [][(hist'.wl /= hist.wl /\ hist'.wl.use_virtual_loss /\ visits > 0)
             => /\ hist'.wl.value = GetWL(hist'.wl.color, TRUE)
                /\ ~FLess(GetWL(hist'.wl.color, FALSE), hist'.wl.value)]_vars

\* C28 witness: White read a visited node with virtual loss while a thread
\* was below it, and the value is strictly less than the plain value
C28_Witness ==
    /\ visits > 1 /\ 0 < accumulated_black_wl /\ accumulated_black_wl < EvalUnit * visits
    /\ running_threads > 0
    /\ hist.wl.called /\ hist.wl.color = kWhite /\ hist.wl.use_virtual_loss
    /\ hist.wl.value = GetWL(kWhite, TRUE)
    /\ FLess(hist.wl.value, GetWL(kWhite, FALSE))
    /\ FLess(GetWL(kBlack, TRUE), GetWL(kBlack, FALSE))

\* C29 (as stated): for a node with visits = n >= 2 GetLcb takes the table
\* entry z[n-1], the quantile for n-1 degrees of freedom, and the last entry
\* z[999] when n-1 is at or beyond 1000; CachedTQuantile reads only indices
\* 0..999 for any integer argument.
C29_LcbReadsEntryOfVisitsMinusOne ==
    /\ hist.tq.reads \subseteq 0..999
    /\ (hist.tq.called /\ hist.tq.from_lcb /\ visits >= 2)
          => /\ hist.tq.reads = {IF visits - 1 >= 1000 THEN 999 ELSE visits - 1}
             /\ visits - 1 < 1000 => hist.tq.z = visits - 1

\* C29 (what the code does): for a node with visits = n >= 2 GetLcb takes
\* the table entry z[n-2], the quantile computed for n-2 degrees of freedom,
\* and the last entry z[999] when n-1 is at or beyond 1000; CachedTQuantile
\* reads only indices 0..999 for any integer argument.
C29_LcbReadsEntryOfVisitsMinusTwo ==
    /\ hist.tq.reads \subseteq 0..999
    /\ (hist.tq.called /\ hist.tq.from_lcb /\ visits >= 2)
          => /\ hist.tq.reads = {IF visits - 1 >= 1000 THEN 999 ELSE visits - 2}
             /\ visits - 1 < 1000 => hist.tq.z = visits - 2
    /\ (hist.tq.called /\ hist.tq.from_lcb /\ visits < 2) => hist.tq.reads = {}

\* C29 witness: GetLcb on a node of four visits read the entry computed for
\* two degrees of freedom
C29_Witness ==
    /\ visits = 4
    /\ hist.tq.called /\ hist.tq.from_lcb
    /\ hist.tq.reads = {2} /\ hist.tq.z = 2

\* The least power of two that is at least x, and the greatest that is at most x
CeilPow2(x) == IF Pow2(Log2Floor(x)) = x THEN x ELSE 2 * Pow2(Log2Floor(x))
FloorPow2(x) == Pow2(Log2Floor(x))

WithVisits(x) == {i \in DOMAIN children : children[i].visits = x}

\* The visit counts of the children are, in some order, epochs times the
\* counts of a whole epoch plus those of the first r rounds of an epoch
HalvingCounts(m, epochs, r) ==
    LET n == Log2Floor(m) + 1
        whole == GumbelTable(n, m)
        part == GumbelTable(r, m)
    IN  \A x \in 0..(epochs + 1) * (2 * m - 1) :
            Cardinality(WithVisits(x)) =
                Cardinality({j \in 0..(m - 1) : epochs * whole[j] + part[j] = x})

\* C31: walking the Gumbel schedule single-threaded with m = 2, 4, 8, 16
\* considered moves, before every selection at least one child has the
\* scheduled visits, and after every round of every epoch the visit counts
\* are those of sequential halving: round r of an epoch gives m/2^r children
\* 2^r visits each; for m = 4 the counts are 7,3,1,1 after the first epoch
\* and 14,6,2,2 after the second.
C31_WalkFollowsSequentialHalving ==
    LET m == param.gumbel_considered_moves
        n == Log2Floor(m) + 1
    IN  (visits >= 1 /\ hist.pending = 0)
        => /\ ShouldApplyGumbel(param, visits)
                => WithVisits(ConsideredVisits(GumbelParentVisits(children), m)) /= {}
           /\ ~hist.last_sel.crashed
           /\ \A e \in 0..WalkEpochs : \A r \in 0..(n - 1) :
                  hist.backed_up = e * n * m + r * m => HalvingCounts(m, e, r)
           /\ (m = 4 /\ hist.backed_up = 12)
                  => \E a, b, c, d \in DOMAIN children :
                        /\ {a, b, c, d} = DOMAIN children
                        /\ children[a].visits = 7 /\ children[b].visits = 3
                        /\ children[c].visits = 1 /\ children[d].visits = 1
           /\ (m = 4 /\ hist.backed_up = 24)
                  => \E a, b, c, d \in DOMAIN children :
                        /\ {a, b, c, d} = DOMAIN children
                        /\ children[a].visits = 14 /\ children[b].visits = 6
                        /\ children[c].visits = 2 /\ children[d].visits = 2

\* C31 witness: with 4 considered moves the second epoch has been walked
C31_Witness ==
    /\ param.gumbel_considered_moves = 4
    /\ hist.backed_up = 24 /\ hist.pending = 0 /\ hist.gumbel_count = 24
    /\ \E a \in DOMAIN children : children[a].visits = 14

\* C32 (as stated): under any interleaving of concurrent SetActive and
\* Invalidate calls on a node, once an Invalidate has returned the status is
\* Invalid and stays Invalid.
C32_InvalidAfterInvalidateReturns ==
    hist.invalidate_returned => status = "Invalid"

\* C32 (what the code guarantees): a node leaves Invalid only by the store of
\* a SetActive whose IsValid() load saw the node before it was invalidated;
\* a SetActive or Invalidate that loads an Invalid status stores nothing.
C32_InvalidLeftOnlyByStaleSetActive ==
    [][(status = "Invalid" /\ status' /= "Invalid")
       => \E t \in Threads :
             /\ pc[t] = "sa_store" /\ pc'[t] = "idle"
             /\ loc[t].valid /\ loc[t].before /= "Invalid"
             /\ status' = IF loc[t].active THEN "Active" ELSE "Pruned"]_vars

\* C32 witness: Invalidate has returned, no call is running, and the node is
\* Active again
C32_Witness ==
    /\ hist.invalidate_returned
    /\ Quiescent
    /\ status = "Active"
    /\ hist.calls = <<"SetActive(true)", "Invalidate">>

\* The squared_eval_diff that K Update calls with the backed-up values leave
\* when run one after another on a fresh node, in either order: the sum of
\* (v - mean)^2, which is sum v^2 - (sum v)^2 / K
SerialSquaredEvalDiff ==
    Frac(hist.sum_sq * hist.updates_done - hist.sum_wl * hist.sum_wl,
         hist.updates_done * EvalUnit * EvalUnit)

\* C33 (as stated): when two Update calls on a node overlap, the final
\* squared_eval_diff is the value that the same two calls leave in one of
\* the two serial orders.
C33_OverlappingUpdatesAsSerial ==
    (Quiescent /\ hist.updates_done = 2 /\ visits = 2)
    => squared_eval_diff = SerialSquaredEvalDiff

\* C33 (what the code guarantees): Update calls that do not overlap leave
\* that value, after any number of calls
C33_SerialUpdatesLeaveSerialValue ==
    (Quiescent /\ hist.updates_done >= 1 /\ hist.updates_done = Len(hist.values))
    => squared_eval_diff = SerialSquaredEvalDiff

\* C33 witness: two Update calls with values 0 and 1 have returned and
\* squared_eval_diff is 0, where either serial order leaves 1/2
C33_Witness ==
    /\ Quiescent /\ hist.updates_done = 2 /\ visits = 2
    /\ hist.sum_wl = EvalUnit /\ hist.sum_sq = EvalUnit * EvalUnit
    /\ SerialSquaredEvalDiff = Frac(1, 2)
    /\ squared_eval_diff = FInt(0)

\* C34 (as stated): called on an expanded node with at least one Active or
\* uninflated child, ProbSelectChild, PuctSelectChild, UctSelectChild and
\* GumbelSelectChild each return a child that is Active, never one that is
\* Pruned or Invalid.
C34_SelectorsReturnActive ==
    (hist.returned.called /\ hist.returned.selectable)
    => ~hist.returned.crashed /\ hist.returned.status = "Active"

\* C34 (what the code guarantees): called on an expanded node with at least
\* one Active or uninflated child, ProbSelectChild, PuctSelectChild and
\* UctSelectChild return a child that is Active; GumbelSelectChild returns
\* an Active child that has the scheduled visits or a child that is Pruned
\* or Invalid, unless an edge is uninflated.
C34_SelectorsButGumbelReturnActive ==
    (hist.returned.called /\ hist.returned.selectable)
    => IF hist.returned.op /= "GumbelSelectChild"
       THEN ~hist.returned.crashed /\ hist.returned.status = "Active"
       ELSE hist.returned.crashed <=> \E i \in DOMAIN children : ~children[i].inflated

\* C34 witness: GumbelSelectChild returned a Pruned child of a node that has
\* an Active child
C34_Witness ==
    /\ hist.returned.called /\ hist.returned.op = "GumbelSelectChild"
    /\ hist.returned.selectable /\ ~hist.returned.crashed
    /\ hist.returned.status = "Pruned"
    /\ \E i \in DOMAIN children : children[i].inflated /\ children[i].status = "Active"

\* C35: under any interleaving of concurrent SetTerminal and ExpandChildren
\* calls on a node at most one call in total returns true; a node that
\* SetTerminal marked terminal stays Expanded with an invalid colour and no
\* children, and a node that ExpandChildren expanded keeps its colour and
\* its children and is never turned terminal.
C35_ExpandOrTerminalOnce ==
    /\ [](hist.expand_true + hist.terminal_true <= 1)
    /\ [][hist.terminal_true = 1
             => /\ expand_state = "Expanded" /\ expand_state' = "Expanded"
                /\ color = kInvalid /\ color' = kInvalid
                /\ children = <<>> /\ children' = <<>>]_vars
    /\ [][hist.expand_true = 1
             => /\ expand_state = "Expanded" /\ expand_state' = "Expanded"
                /\ color /= kInvalid /\ color' = color
                /\ children /= <<>> /\ children' = children
                /\ hist'.terminal_true = 0]_vars

\* C35 witness: SetTerminal has returned true, an ExpandChildren call has
\* lost the compare-and-swap after it, and no call is running
C35_Witness ==
    /\ hist.terminal_true = 1 /\ hist.expand_true = 0
    /\ hist.cas_lost
    /\ Quiescent
    /\ children = <<>> /\ color = kInvalid

\* C36: when the Update calls on a node are made one after another, after K
\* calls avg_black_ownership[idx] is, for every intersection, the exact
\* arithmetic mean of the K ownership values backed up for it.
C36_SerialOwnershipIsMean ==
    hist.updates_done > 0 =>
        /\ visits = hist.updates_done
        /\ \A idx \in Indices :
               avg_black_ownership[idx] = Frac(hist.sum_own, hist.updates_done)

\* C36 witness: MaxSerialUpdates updates with three different ownership
\* values have left a mean that is not a whole number
C36_Witness ==
    /\ hist.updates_done = MaxSerialUpdates
    /\ {hist.values[i] : i \in DOMAIN hist.values} = {0, 1, EvalUnit}
    /\ \A idx \in Indices : avg_black_ownership[idx] = Frac(hist.sum_own, MaxSerialUpdates)
    /\ \E idx \in Indices : avg_black_ownership[idx].d /= 1

\* ------------------------------------------------- the self-play pipe
\* selfplay/pipe.cc.  Each worker of SelfPlayPipe::Loop is a thread; pc is
\* its position in the lambda of lines 117-161.
kGamesPerChunk == 25
MaxGames == 51

\* SaveChunk, lines 42-79: the chunk is written under the name of out_id and
\* cleared whether the file could be opened or not; the result is is_open
SaveChunk(p, out_id, is_open) ==
    [pipe |-> [p EXCEPT !.chunk = EmptyBag],
     saved |-> [out_id |-> out_id, chunk |-> p.chunk, is_open |-> is_open]]

\* Loop, lines 83-94 and 115-120: with no game to play Loop returns before
\* it makes a worker; a worker starts by counting itself as running
Worker_Start(g) ==
    /\ pipe.max_games /= 0
    /\ pc[g] = "idle"
    /\ pipe' = [pipe EXCEPT !.running_threads = @ + 1]
    /\ pc' = [pc EXCEPT ![g] = "pipe_loop"]
    /\ UNCHANGED <<state, param, nn_cache, nodeVars, status, statVars, score_bouns, popped,
                   loc, hist>>

\* A loop test that lets one game too many through
Worker_FetchGame_Inclusive(g) ==
    /\ pc[g] = "pipe_loop"
    /\ LET old == pipe.accmulate_games
       IN  IF old <= pipe.max_games
           THEN /\ pipe' = [pipe EXCEPT !.accmulate_games = old + 1,
                                        !.games[g] = old + 1]
                /\ pc' = [pc EXCEPT ![g] = "pipe_play"]
                /\ hist' = [hist EXCEPT !.started = @ + 1]
           ELSE /\ pipe' = [pipe EXCEPT !.accmulate_games = old + 1]
                /\ pc' = [pc EXCEPT ![g] = "pipe_exit"]
                /\ UNCHANGED hist
    /\ UNCHANGED <<state, param, nn_cache, nodeVars, status, statVars, score_bouns, popped,
                   loc>>

\* Lines 122-123: accmulate_games_.fetch_add(1) < max_games_ decides whether
\* another game is prepared
Worker_FetchGame(g) ==
    /\ pc[g] = "pipe_loop"
    /\ LET old == pipe.accmulate_games
       IN  IF old < pipe.max_games
           THEN /\ pipe' = [pipe EXCEPT !.accmulate_games = old + 1,
                                        !.games[g] = old + 1]
                /\ pc' = [pc EXCEPT ![g] = "pipe_play"]
                /\ hist' = [hist EXCEPT !.started = @ + 1]
           ELSE /\ pipe' = [pipe EXCEPT !.accmulate_games = old + 1]
                /\ pc' = [pc EXCEPT ![g] = "pipe_exit"]
                /\ UNCHANGED hist
    /\ UNCHANGED <<state, param, nn_cache, nodeVars, status, statVars, score_bouns, popped,
                   loc>>

\* Line 124: the game is played to its end
Worker_Selfplay(g) ==
    /\ pc[g] = "pipe_play"
    /\ pc' = [pc EXCEPT ![g] = "pipe_gather"]
    /\ hist' = [hist EXCEPT !.finished = @ \cup {pipe.games[g]}]
    /\ UNCHANGED <<state, pipe, param, nn_cache, nodeVars, status, statVars, score_bouns,
                   popped, loc>>

\* Lines 126-139, under data_mutex_: the data of the game joins the chunk,
\* every kGamesPerChunk-th game saves the chunk, and a failed save leaves
\* the loop
Worker_Gather(g, is_open) ==
    /\ pc[g] = "pipe_gather"
    /\ LET gathered == [pipe EXCEPT !.chunk = @ (+) SetToBag({pipe.games[g]}), !.games[g] = 0]
       IN  IF (gathered.chunk_games + 1) % kGamesPerChunk = 0
           THEN LET save == SaveChunk(gathered, gathered.chunk_games \div kGamesPerChunk,
                                      is_open)
                IN  /\ hist' = [hist EXCEPT !.saved = Append(@, save.saved),
                                            !.save_failed = @ \/ ~is_open]
                    /\ IF is_open
                       THEN /\ pipe' = [save.pipe EXCEPT !.chunk_games = @ + 1]
                            /\ pc' = [pc EXCEPT ![g] = "pipe_played"]
                       ELSE /\ pipe' = save.pipe
                            /\ pc' = [pc EXCEPT ![g] = "pipe_exit"]
           ELSE /\ is_open
                /\ pipe' = [gathered EXCEPT !.chunk_games = @ + 1]
                /\ pc' = [pc EXCEPT ![g] = "pipe_played"]
                /\ UNCHANGED hist
    /\ UNCHANGED <<state, param, nn_cache, nodeVars, status, statVars, score_bouns, popped,
                   loc>>

\* Lines 141-147: the game is counted as played
Worker_Played(g) ==
    /\ pc[g] = "pipe_played"
    /\ pipe' = [pipe EXCEPT !.played_games = @ + 1]
    /\ pc' = [pc EXCEPT ![g] = "pipe_loop"]
    /\ UNCHANGED <<state, param, nn_cache, nodeVars, status, statVars, score_bouns, popped,
                   loc, hist>>

\* An exit that leaves the rest of the chunk to the worker that exits first
Worker_Exit_AnyThread(g, is_open) ==
    /\ pc[g] = "pipe_exit"
    /\ LET left == [pipe EXCEPT !.running_threads = @ - 1]
       IN  IF left.chunk /= EmptyBag
           THEN LET save == SaveChunk(left, left.chunk_games \div kGamesPerChunk, is_open)
                IN  /\ pipe' = [save.pipe EXCEPT !.chunk_games = @ + 1]
                    /\ hist' = [hist EXCEPT !.saved = Append(@, save.saved),
                                            !.save_failed = @ \/ ~is_open]
           ELSE /\ is_open
                /\ pipe' = left
                /\ UNCHANGED hist
    /\ pc' = [pc EXCEPT ![g] = "pipe_done"]
    /\ UNCHANGED <<state, param, nn_cache, nodeVars, status, statVars, score_bouns, popped,
                   loc>>

\* Lines 150-160, under data_mutex_: the worker counts itself out and the
\* one that leaves no worker running saves what the chunk still holds
Worker_Exit(g, is_open) ==
    /\ pc[g] = "pipe_exit"
    /\ LET left == [pipe EXCEPT !.running_threads = @ - 1]
       IN  IF left.chunk /= EmptyBag /\ left.running_threads = 0
           THEN LET save == SaveChunk(left, left.chunk_games \div kGamesPerChunk, is_open)
                IN  /\ pipe' = [save.pipe EXCEPT !.chunk_games = @ + 1]
                    /\ hist' = [hist EXCEPT !.saved = Append(@, save.saved),
                                            !.save_failed = @ \/ ~is_open]
           ELSE /\ is_open
                /\ pipe' = left
                /\ UNCHANGED hist
    /\ pc' = [pc EXCEPT ![g] = "pipe_done"]
    /\ UNCHANGED <<state, param, nn_cache, nodeVars, status, statVars, score_bouns, popped,
                   loc>>

\* The numbers of games Loop is run for
PipeGameInputs == {0, 1, 2, 3, kGamesPerChunk, kGamesPerChunk + 1, MaxGames}

InitPipe ==
    /\ state = BaseState
    /\ param \in ParamInputs
    /\ expand_state = NodeDefaults.expand_state
    /\ color = NodeDefaults.color
    /\ children = NodeDefaults.children
    /\ black_wl = NodeDefaults.black_wl
    /\ status = NodeDefaults.status
    /\ visits = NodeDefaults.visits
    /\ accumulated_black_wl = NodeDefaults.accumulated_black_wl
    /\ accumulated_draw = NodeDefaults.accumulated_draw
    /\ accumulated_black_fs = NodeDefaults.accumulated_black_fs
    /\ squared_eval_diff = NodeDefaults.squared_eval_diff
    /\ avg_black_ownership = NodeDefaults.avg_black_ownership
    /\ score_bouns = NodeDefaults.score_bouns
    /\ popped = [vertex |-> -1, score_bouns |-> 0, null |-> TRUE]
    /\ nn_cache = CacheInit
    /\ \E num_games \in PipeGameInputs : pipe = PipeDefaults(num_games)
    /\ pc = [t \in Threads |-> "idle"]
    /\ loc = [t \in Threads |-> NoLocals]
    /\ hist = HistInit

NextPipe ==
    \/ \E g \in Threads : Worker_Start(g)
    \/ \E g \in Threads : Worker_FetchGame(g)
    \/ \E g \in Threads : Worker_Selfplay(g)
    \/ \E g \in Threads : \E is_open \in BOOLEAN : Worker_Gather(g, is_open)
    \/ \E g \in Threads : Worker_Played(g)
    \/ \E g \in Threads : \E is_open \in BOOLEAN : Worker_Exit(g, is_open)

SpecPipe == InitPipe /\ [][NextPipe]_vars

\* Every worker has left the lambda
WorkersExited == pipe.max_games /= 0 /\ \A g \in Threads : pc[g] = "pipe_done"

\* C37: with num_games = G > 0 the number of games started over all workers
\* never exceeds G, and is exactly G once every worker has exited and no
\* SaveChunk has failed.
C37_GamesStartedIsNumGames ==
    pipe.max_games > 0 =>
        /\ hist.started <= pipe.max_games
        /\ WorkersExited /\ ~hist.save_failed => hist.started = pipe.max_games

\* C37 witness: both workers have played games of a run of MaxGames games,
\* all have exited and every save was written
C37_Witness ==
    /\ WorkersExited /\ ~hist.save_failed
    /\ pipe.max_games = MaxGames
    /\ hist.started = MaxGames
    /\ pipe.accmulate_games = MaxGames + NumThreads

\* How many times the data of a game was handed to SaveChunk
TimesSaved(game) ==
    SumSeq([i \in DOMAIN hist.saved |->
               IF BagIn(game, hist.saved[i].chunk) THEN CopiesIn(game, hist.saved[i].chunk)
               ELSE 0])

\* C38: when no SaveChunk has failed and all workers have exited, the data
\* of every finished game has been passed to SaveChunk exactly once, none
\* is left in the shared chunk, and no two SaveChunk calls used the same
\* chunk id.
C38_EveryGameSavedOnce ==
    WorkersExited /\ ~hist.save_failed =>
        /\ pipe.chunk = EmptyBag
        /\ hist.finished = 1..pipe.max_games
        /\ \A game \in hist.finished : TimesSaved(game) = 1
        /\ \A i, j \in DOMAIN hist.saved :
               hist.saved[i].out_id = hist.saved[j].out_id => i = j

\* C38 witness: MaxGames games were played by both workers, two full chunks
\* were saved inside the loop and the rest by the last worker to exit
C38_Witness ==
    /\ WorkersExited /\ ~hist.save_failed
    /\ pipe.max_games = MaxGames
    /\ Len(hist.saved) = MaxGames \div kGamesPerChunk + 1
    /\ [i \in DOMAIN hist.saved |-> hist.saved[i].out_id] = <<0, 1, 2>>
    /\ BagCardinality(hist.saved[1].chunk) = kGamesPerChunk
    /\ BagCardinality(hist.saved[3].chunk) = MaxGames % kGamesPerChunk
    /\ pipe.played_games = MaxGames

\* C39: in ProcessGumbelLogits, for every considered_moves >= 1 and every
\* root_visits >= 0, the halving width stays at least 1, so that nothing is
\* divided or taken modulo zero, and the schedule index
\* offset + root_visits % width lies in [0, adj_considered_moves).
C39_ScheduleIndexInTable ==
    hist.schedule.called =>
        LET index == hist.schedule.index
        IN  /\ index.width >= 1
            /\ ~index.modulo_by_zero
            /\ 0 <= index.idx /\ index.idx < index.adj_considered_moves
            /\ index.idx \in DOMAIN GumbelTable(GumbelRounds(hist.schedule.considered_moves),
                                                AdjConsideredMoves(hist.schedule.considered_moves))

\* C39 witness: with 8 considered moves and 30 root visits the last halving
\* of the epoch is reached: width is 1 and the index is the last of the table
C39_Witness ==
    /\ hist.schedule.called
    /\ hist.schedule.considered_moves = 8 /\ hist.schedule.root_visits = 30
    /\ hist.schedule.index.m = 3
    /\ hist.schedule.index.width = 1
    /\ hist.schedule.index.idx = 7
====
